---- MODULE Spec2Model ----
(***************************************************************************)
(* Model of biomaj-download: the download service (queue consumer, session *)
(* store) and the download client (remote mode).                           *)
(*                                                                         *)
(* The session store is the redis key space of ONE session of one bank:    *)
(*   <prefix>:<bank>:session:<sid>             -> "session"  in keys       *)
(*   <prefix>:<bank>:session:<sid>:error       -> "error"    in keys       *)
(*   <prefix>:<bank>:session:<sid>:progress    -> "progress" in keys       *)
(*   <prefix>:<bank>:session:<sid>:files       -> "files"    in keys       *)
(*   <prefix>:<bank>:session:<sid>:error:info  -> errorInfo (a redis list  *)
(*                                                exists iff it is not     *)
(*                                                empty)                   *)
(*   <prefix>:<bank>:action:cancel             -> cancel                   *)
(* Every redis command is one atomic step; a handler that issues several   *)
(* commands is a sequence of steps, so that other processes interleave.    *)
(***************************************************************************)
EXTENDS Integers, Sequences, FiniteSets, TLC

\* ------------------------------------------------------------------ bounds
\* Number of messages published to the queue in one behaviour.
MaxJobs == 3

\* Number of files the client submits (download_remote_file calls).
MaxFiles == 2

\* Largest rate limit the client is given (set_rate_limiting).
MaxRate == 2

\* Delivery tags that can be given out.
MaxTags == IF MaxJobs > MaxFiles THEN MaxJobs ELSE MaxFiles

\* The consumers of the queue (each one a DownloadService.wait_for_messages
\* process): one when the service is studied on its own, two when it serves
\* the download client.
ServiceWorkers == {1}

ClientWorkers == {1, 2}

\* ------------------------------------------------------- message contents
\* A queue message body: an Operation that parses (decodes = TRUE) or not,
\* with type 0 (LIST), 1 (DOWNLOAD) or 2 (PROCESS), and, for a LIST, the
\* number of match patterns it carries.
\* `file` numbers the file of a client's DOWNLOAD job (0 for other messages).
\* `protocol` is remote_file.protocol: FTP (0) unless said otherwise.
\* `redelivered` is the flag the broker sets on a delivery it repeats.
Message(decodes, type, nmatches, file) ==
    [decodes |-> decodes, type |-> type, nmatches |-> nmatches, file |-> file,
     protocol |-> 0, redelivered |-> FALSE]

ListMsg == Message(TRUE, 0, 1, 0)

ListNoPatternMsg == Message(TRUE, 0, 0, 0)

DownloadMsg == Message(TRUE, 1, 0, 0)

ProcessMsg == Message(TRUE, 2, 0, 0)

GarbageMsg == Message(FALSE, 0, 0, 0)

\* Protocol IRODS (9) of the Protocol enum: get_handler has no downloader
\* for it (nor for DIRECTFTPS, 10).
IRODS == 9

ListNoHandlerMsg == [ListMsg EXCEPT !.protocol = IRODS]

DownloadNoHandlerMsg == [DownloadMsg EXCEPT !.protocol = IRODS]

Messages ==
    {ListMsg, ListNoPatternMsg, DownloadMsg, ProcessMsg, GarbageMsg,
     ListNoHandlerMsg, DownloadNoHandlerMsg}

NoMsg == Message(FALSE, 2, 0, 0)

\* What was done for the delivery a worker is handling: the number of times
\* each session key was written, the number of downloaders built
\* (_get_handler calls, each followed by the network operation), the number
\* of download_callback calls, whether an exception reached the except
\* clause of callback_messages, and what the handler's first GET of the
\* session key found ("unread" before it).
NoLog ==
    [progress |-> 0, error |-> 0, errinfo |-> 0, files |-> 0,
     handler |-> 0, callback |-> 0, raised |-> FALSE, session |-> "unread"]

VARIABLES
    keys,       \* the session's plain keys present in the store
    vError,     \* value of the error key (0 when absent)
    vProgress,  \* value of the progress key (0 when absent)
    vFiles,     \* value of the files key: tag of the LIST that wrote it
    errorInfo,  \* the error:info list, head = left end (lpush side)
    cancel,     \* the bank's action:cancel flag
    created,    \* a session id was handed out by _create_session
    queue,      \* published messages not yet delivered
    published,  \* number of basic_publish calls so far
    delivered,  \* number of deliveries so far (the last delivery tag)
    acks,       \* acks[t]: number of basic_ack sent for delivery tag t
    wpc,        \* wpc[w]: where worker w is in callback_messages
    wmsg,       \* wmsg[w]: the message worker w is handling
    wtag,       \* wtag[w]: its delivery tag
    wres,       \* wres[w]: outcome of the downloader for this delivery
    wlog,       \* wlog[w]: what was done for this delivery (see NoLog)
    cleanpc,    \* where DownloadService.clean is
    \* --- DownloadClient (remote mode) ---
    cpc,                \* where the client is
    rate_limiting,      \* self.rate_limiting
    redis_client,       \* TRUE iff the client was given a redis_client
    files_to_download,  \* self.files_to_download
    download_pool,      \* self.download_pool (pending operations)
    nb_submitted,       \* local of wait_for_download
    progress,           \* local of wait_for_download (last status read)
    error,              \* local of wait_for_download (last status read)
    max_submit,         \* iterations the publishing loop has left
    download_error,     \* local of wait_for_download: the value it returns
    last_progress,      \* local of wait_for_download: last percentage logged
    progress_log,       \* the percentages of the InProgress lines logged
    \* --- a caller of download_errors (GET /api/download/error/download) ---
    epc,                \* where the download_errors call is
    errors,             \* its local list `errors`
    recorded,           \* every message pushed to error:info, in order
    returned,           \* the lists the finished calls returned, in order
    \* --- a caller of DownloadInterface.set_options ---
    options,            \* self.options
    retryer,            \* the stop condition and wait policy of self.retryer
    opt_result,         \* how the last set_options call ended
    opt_calls,          \* number of set_options calls made so far
    \* --- DownloadService.on_download_callback ---
    self_download_callback,  \* self.download_callback of the service
    \* --- DownloadClient (local mode) and its DownloadThread workers ---
    pool_size,          \* self.pool_size
    message_queue,      \* the Queue of _download_pool_files (head = next get)
    unfinished_tasks,   \* the Queue's count of put() not yet task_done()
    thpc,               \* thpc[t]: where DownloadThread t is in run()
    thmsg,              \* thmsg[t]: the message thread t took from the queue
    therror,            \* therror[t]: th.error
    calls,              \* calls[j]: local_download calls made for pooled job j
    failed,             \* jobs whose local_download raised or returned None
    file_dir,           \* file_dir[t]: the directory thread t downloads to
    mkpc,               \* mkpc[t]: where thread t is in download()
    disk_dirs,          \* the directories that exist on the local disk
    \* --- DownloadInterface (one downloader) ---
    dpc,                   \* where the downloader's caller is
    dl_files_to_download,  \* self.files_to_download (a list of file dicts)
    stop_max,              \* n of the stop condition stop_after_attempt(n)
    skip_check_uncompress, \* self.skip_check_uncompress
    d_index,               \* position of download()'s loop in the list
    attempt_number,        \* the retryer's attempt number for this file
    results,               \* results[i]: values _download returned for
                           \* file i during the current download() call
    d_calls,               \* number of download() calls made so far
    last_attempt,          \* what the last _download call did
    local_files,           \* the save_as paths that exist under local_dir
    files_to_copy,         \* self.files_to_copy
    available_files,       \* the inventory given to download_or_copy
    check_exists,          \* its check_exists argument
    existing,              \* names whose file exists under root_dir
    downloader_class,      \* the class of the downloader
    remote_tree,           \* the remote directories and their files
    patterns,              \* the patterns given to match
    file_list,             \* the file dicts of the top listing (objects
                           \* shared by the caller and the downloader)
    dir_list,              \* the directory names of the top listing
    list_calls,            \* directories listed by the last match call
    match_raised,          \* whether the last match call raised
    remote_answer,         \* how the remote answers a listing request
    list_result,           \* how the list() call ended
    self_save_as           \* self.save_as of the downloader

logVars == <<last_progress, progress_log>>

errorsVars == <<epc, errors, recorded, returned>>

\* State of the calls made beside the client's wait.
optionVars == <<options, retryer, opt_result, opt_calls>>

apiVars == <<errorsVars, optionVars, self_download_callback>>

clientVars ==
    <<cpc, rate_limiting, redis_client, files_to_download, download_pool,
      nb_submitted, progress, error, max_submit, download_error, logVars,
      apiVars>>

serviceVars ==
    <<keys, vError, vProgress, vFiles, errorInfo, created, queue, published,
      delivered, acks, wpc, wmsg, wtag, wres, wlog, cleanpc>>

mkdirVars == <<file_dir, mkpc, disk_dirs>>

threadVars ==
    <<pool_size, message_queue, unfinished_tasks, thpc, thmsg, therror,
      calls, failed, mkdirVars>>

downloadVars ==
    <<stop_max, skip_check_uncompress, d_index, attempt_number, results,
      d_calls, last_attempt, local_files>>

copyVars == <<files_to_copy, available_files, check_exists, existing>>

matchVars ==
    <<downloader_class, remote_tree, patterns, file_list, dir_list,
      list_calls, match_raised, remote_answer, list_result, self_save_as>>

downloaderVars ==
    <<dpc, dl_files_to_download, downloadVars, copyVars, matchVars>>

vars == <<serviceVars, cancel, clientVars, threadVars, downloaderVars>>

storeVars == <<keys, vError, vProgress, vFiles, errorInfo>>

\* ------------------------------------------------------------ redis store
\* GET of a counter key as redis returns it (decode_responses): the value,
\* or None, here -1 only through download_status below.
HasKey(k) == k \in keys

\* redis INCR: an absent key counts as 0.
Incr(v, k) == IF HasKey(k) THEN v + 1 ELSE 1

\* The service with idle consumers and an empty queue; the store is empty,
\* or holds the session key once _create_session has run (SET <session> 1,
\* line 251).
ServiceAt(W, session_created) ==
    /\ keys = IF session_created THEN {"session"} ELSE {}
    /\ vError = 0
    /\ vProgress = 0
    /\ vFiles = 0
    /\ errorInfo = <<>>
    /\ created = session_created
    /\ queue = <<>>
    /\ published = 0
    /\ delivered = 0
    /\ acks = [t \in 1..MaxTags |-> 0]
    /\ wpc = [w \in W |-> "idle"]
    /\ wmsg = [w \in W |-> NoMsg]
    /\ wtag = [w \in W |-> 0]
    /\ wres = [w \in W |-> "none"]
    /\ wlog = [w \in W |-> NoLog]
    /\ cleanpc = "idle"

InitService(W) == ServiceAt(W, FALSE)

\* DownloadService._create_session: SET <session> 1.
CreateSession ==
    /\ ~created
    /\ created' = TRUE
    /\ keys' = keys \cup {"session"}
    /\ UNCHANGED <<vError, vProgress, vFiles, errorInfo, queue, published,
                   delivered, acks, wpc, wmsg, wtag, wres, wlog, cleanpc,
                   cancel, clientVars, threadVars, downloaderVars>>

\* DownloadService.ask_download: basic_publish of one message.
ask_download(m) ==
    /\ queue' = Append(queue, m)
    /\ published' = published + 1

\* A producer outside this repository (the bank workflow) publishes an
\* operation for the session it was given.
Publish(m) ==
    /\ created
    /\ published < MaxJobs
    /\ ask_download(m)
    /\ UNCHANGED <<storeVars, created, delivered, acks, wpc, wmsg, wtag, wres,
                   wlog, cleanpc, cancel, clientVars, threadVars, downloaderVars>>

\* ------------------------------------------------- the consumer (worker)
\* One step of worker w inside callback_messages: it moves to `pc`, with
\* the delivery's log and downloader outcome as given; the store is set by
\* the caller.
GotoPushing(w, pc, log, res) ==
    /\ wpc' = [wpc EXCEPT ![w] = pc]
    /\ wlog' = [wlog EXCEPT ![w] = log]
    /\ wres' = [wres EXCEPT ![w] = res]
    /\ UNCHANGED <<created, queue, published, delivered, acks, wmsg, wtag,
                   cleanpc, cancel, cpc, rate_limiting, redis_client,
                   files_to_download, download_pool, nb_submitted, progress,
                   error, max_submit, download_error, logVars, epc, errors,
                   returned, optionVars, self_download_callback, threadVars,
                   downloaderVars>>

Goto(w, pc, log, res) ==
    /\ GotoPushing(w, pc, log, res)
    /\ UNCHANGED recorded

\* The messages pushed to error:info so far, with one more; they are kept
\* for the caller of download_errors, when the specification has one.
Recorded(text) ==
    IF epc = "none" THEN recorded ELSE Append(recorded, text)

Logged(w, field) == [wlog[w] EXCEPT ![field] = @ + 1]

\* Where callback_messages goes once the message is parsed (or not):
\* the except clause and every branch that calls no handler end at the
\* basic_ack that follows the try statement.
DispatchAckInsideTry(m) ==
    IF ~m.decodes THEN "idle"
    ELSE IF m.type = 0 THEN (IF m.nmatches = 0 THEN "ack" ELSE "list")
    ELSE IF m.type = 1 THEN "download"
    ELSE "ack"

Dispatch(m) ==
    IF ~m.decodes THEN "ack"
    ELSE IF m.type = 0 THEN (IF m.nmatches = 0 THEN "ack" ELSE "list")
    ELSE IF m.type = 1 THEN "download"
    ELSE "ack"

\* pika delivers the head of the queue to an idle consumer (prefetch 1);
\* callback_messages parses the body and dispatches on operation.type.
callback_messages(w) ==
    /\ wpc[w] = "idle"
    /\ queue # <<>>
    /\ LET m == Head(queue) IN
        /\ queue' = Tail(queue)
        /\ delivered' = delivered + 1
        /\ wtag' = [wtag EXCEPT ![w] = delivered + 1]
        /\ wmsg' = [wmsg EXCEPT ![w] = m]
        /\ wpc' = [wpc EXCEPT ![w] = Dispatch(m)]
        /\ wlog' = [wlog EXCEPT ![w] = [NoLog EXCEPT !.raised = ~m.decodes]]
        /\ wres' = [wres EXCEPT ![w] = "none"]
    /\ UNCHANGED <<storeVars, created, published, acks, cleanpc, cancel,
                   clientVars, threadVars, downloaderVars>>

\* `if not session: return`: the handler goes on only when the GET of the
\* session key returned a value.
SessionGateIgnored(alive, pcAlive, pcAbsent) == pcAlive

SessionGate(alive, pcAlive, pcAbsent) == IF alive THEN pcAlive ELSE pcAbsent

SessionRead(w) ==
    [wlog[w] EXCEPT !.session = IF HasKey("session") THEN "alive" ELSE "absent"]

\* list(), line 350-353: GET <session>; a missing session ends the handler.
list_session(w) ==
    /\ wpc[w] = "list"
    /\ Goto(w, SessionGate(HasKey("session"), "list_handler", "ack"),
            SessionRead(w), wres[w])
    /\ UNCHANGED storeVars

\* Outcomes of _list once the handler is built: list() and match() return
\* and every matched file serialises ("ok"); list() or match() raises
\* ("raise", caught at line 312); or a matched file cannot be written to
\* the FileList ("serialize_raise": the else clause, lines 318-342, is not
\* covered by the except clause; e.g. the files of RSYNCDownload.list have
\* no 'group', 'hash' or 'root').
ListOutcomes == {"ok", "raise", "serialize_raise"}

\* Where list() continues after _get_handler and the downloader calls of
\* _list, by outcome.
AfterList(res) ==
    CASE res = "ok" -> "list_files"
      [] res = "raise" -> "list_set_error"
      [] OTHER -> "ack"

\* get_handler, lines 124-141: a downloader for the protocols 0 to 8, None
\* for the others.
get_handler(protocol) == IF protocol \in 0..8 THEN "downloader" ELSE "None"

HandlerOutcomesNoneIgnored(m, outcomes) == outcomes

\* With no handler, list() and local_download log an error and go on: the
\* first method called on None raises AttributeError, inside the try
\* statement of _list (line 311) or of download (line 391).
HandlerOutcomes(m, outcomes) ==
    IF get_handler(m.protocol) = "None" THEN {"raise"} ELSE outcomes

\* `while error:` (line 262): the value RPOP returned is taken for a message
\* when it is truthy; None (empty list) and the empty string are not.
Truthy(text) == text # ""

\* str(e) for the exception the handler of message m caught with `except
\* Exception`: the text the exception was raised with, empty for one raised
\* without arguments. It is an exception of the downloader, with a text or
\* without (that of a listing is not that of a transfer), or, with no
\* downloader, the AttributeError of the first method called on None,
\* which has a text.
ExceptionTexts(m) ==
    IF get_handler(m.protocol) = "None" THEN {"e1"}
    ELSE IF m.type = 0 THEN {"", "e2"}
    ELSE {"", "e1"}

\* list(), line 354-358: _get_handler, then _list calls the downloader.
list_handler(w) ==
    /\ wpc[w] = "list_handler"
    /\ \E res \in HandlerOutcomes(wmsg[w], ListOutcomes) :
         Goto(w, AfterList(res),
              [Logged(w, "handler") EXCEPT
                  !.raised = (res = "serialize_raise")],
              res)
    /\ UNCHANGED storeVars

\* _list, line 314: SET <session>:error 1.
list_set_error(w) ==
    /\ wpc[w] = "list_set_error"
    /\ keys' = keys \cup {"error"}
    /\ vError' = 1
    /\ Goto(w, "list_push_error", Logged(w, "error"), wres[w])
    /\ UNCHANGED <<vProgress, vFiles, errorInfo>>

\* _list, line 315: LPUSH <session>:error:info str(e).
list_push_error(w) ==
    /\ wpc[w] = "list_push_error"
    /\ \E text \in ExceptionTexts(wmsg[w]) :
         /\ errorInfo' = <<text>> \o errorInfo
         /\ recorded' = Recorded(text)
    /\ GotoPushing(w, "list_files", Logged(w, "errinfo"), wres[w])
    /\ UNCHANGED <<keys, vError, vProgress, vFiles>>

\* list(), line 360: SET <session>:files <serialized FileList>.
list_files(w) ==
    /\ wpc[w] = "list_files"
    /\ keys' = keys \cup {"files"}
    /\ vFiles' = wtag[w]
    /\ Goto(w, "list_progress", Logged(w, "files"), wres[w])
    /\ UNCHANGED <<vError, vProgress, errorInfo>>

\* list(), line 361: INCR <session>:progress.
list_progress(w) ==
    /\ wpc[w] = "list_progress"
    /\ keys' = keys \cup {"progress"}
    /\ vProgress' = Incr(vProgress, "progress")
    /\ Goto(w, "ack", Logged(w, "progress"), wres[w])
    /\ UNCHANGED <<vError, vFiles, errorInfo>>

\* callback_messages, line 461, once download() has returned: `if
\* self.download_callback is not None` the callback is called, otherwise
\* the basic_ack of line 470 comes next.
AfterDownloadReturned ==
    IF self_download_callback = "None" THEN "ack" ELSE "callback"

\* download(), line 385-388: GET <session>; a missing session returns None
\* and callback_messages goes on to the download callback.
download_session(w) ==
    /\ wpc[w] = "download"
    /\ Goto(w, SessionGate(HasKey("session"), "local_download",
                           AfterDownloadReturned),
            SessionRead(w), wres[w])
    /\ UNCHANGED storeVars

\* Outcomes of local_download: the files are returned, or _get_handler,
\* download() or get_file_info raises.
DownloadOutcomes == {"ok", "raise"}

\* Where download() continues after local_download: the except clause
\* (line 392) reads the session again before it records the error.
AfterDownload(res) ==
    IF res = "raise" THEN "download_error_session" ELSE "download_progress_session"

\* download(), line 390-391: local_download builds the handler and
\* transfers the files.
local_download(w) ==
    /\ wpc[w] = "local_download"
    /\ \E res \in HandlerOutcomes(wmsg[w], DownloadOutcomes) :
         Goto(w, AfterDownload(res), Logged(w, "handler"), res)
    /\ UNCHANGED storeVars

\* download(), line 394-395: GET <session> in the except clause.
download_error_session(w) ==
    /\ wpc[w] = "download_error_session"
    /\ Goto(w, SessionGate(HasKey("session"), "download_incr_error",
                           "download_progress_session"),
            wlog[w], wres[w])
    /\ UNCHANGED storeVars

\* download(), line 397: INCR <session>:error.
download_incr_error(w) ==
    /\ wpc[w] = "download_incr_error"
    /\ keys' = keys \cup {"error"}
    /\ vError' = Incr(vError, "error")
    /\ Goto(w, "download_push_error", Logged(w, "error"), wres[w])
    /\ UNCHANGED <<vProgress, vFiles, errorInfo>>

\* download(), line 398: LPUSH <session>:error:info str(e).
download_push_error(w) ==
    /\ wpc[w] = "download_push_error"
    /\ \E text \in ExceptionTexts(wmsg[w]) :
         /\ errorInfo' = <<text>> \o errorInfo
         /\ recorded' = Recorded(text)
    /\ GotoPushing(w, "download_progress_session", Logged(w, "errinfo"),
                   wres[w])
    /\ UNCHANGED <<keys, vError, vProgress, vFiles>>

\* download(), line 402-403: GET <session> before progress is counted.
download_progress_session(w) ==
    /\ wpc[w] = "download_progress_session"
    /\ Goto(w, SessionGate(HasKey("session"), "download_incr_progress",
                           AfterDownloadReturned),
            wlog[w], wres[w])
    /\ UNCHANGED storeVars

\* download(), line 405: INCR <session>:progress.
download_incr_progress(w) ==
    /\ wpc[w] = "download_incr_progress"
    /\ keys' = keys \cup {"progress"}
    /\ vProgress' = Incr(vProgress, "progress")
    /\ Goto(w, AfterDownloadReturned, Logged(w, "progress"), wres[w])
    /\ UNCHANGED <<vError, vFiles, errorInfo>>

\* callback_messages, line 461-462: the registered download callback is
\* called with the downloaded files; it returns or raises, and either way
\* control reaches the basic_ack after the try statement.
download_callback(w) ==
    /\ wpc[w] = "callback"
    /\ self_download_callback # "None"
    /\ \E raises \in BOOLEAN :
         Goto(w, "ack",
              [Logged(w, "callback") EXCEPT !.raised = raises], wres[w])
    /\ UNCHANGED storeVars

\* callback_messages, line 470: basic_ack of the delivery; the callback
\* returns and the consumer is ready for the next delivery.
basic_ack(w) ==
    /\ wpc[w] = "ack"
    /\ acks' = [acks EXCEPT ![wtag[w]] = @ + 1]
    /\ wpc' = [wpc EXCEPT ![w] = "idle"]
    /\ wmsg' = [wmsg EXCEPT ![w] = NoMsg]
    /\ wtag' = [wtag EXCEPT ![w] = 0]
    /\ wres' = [wres EXCEPT ![w] = "none"]
    /\ wlog' = [wlog EXCEPT ![w] = NoLog]
    /\ UNCHANGED <<storeVars, created, queue, published, delivered, cleanpc,
                   cancel, clientVars, threadVars, downloaderVars>>

\* -------------------------------------------------------------- clean
\* DownloadService.clean, lines 240-244: five DEL commands, in this order.
CleanNextPc(pc) ==
    CASE pc = "session" -> "error"
      [] pc = "error" -> "progress"
      [] pc = "progress" -> "files"
      [] pc = "files" -> "error:info"
      [] OTHER -> "done"

\* The store after DEL of key k.
Del(k) ==
    /\ keys' = keys \ {k}
    /\ vError' = IF k = "error" THEN 0 ELSE vError
    /\ vProgress' = IF k = "progress" THEN 0 ELSE vProgress
    /\ vFiles' = IF k = "files" THEN 0 ELSE vFiles
    /\ errorInfo' = IF k = "error:info" THEN <<>> ELSE errorInfo

\* clean is called (DELETE /api/download/session/<bank>/<session>).
clean_call ==
    /\ created
    /\ cleanpc = "idle"
    /\ cleanpc' = "session"
    /\ UNCHANGED <<storeVars, created, queue, published, delivered, acks,
                   wpc, wmsg, wtag, wres, wlog, cancel, clientVars, threadVars, downloaderVars>>

\* One DEL of clean.
clean_del ==
    /\ cleanpc \in {"session", "error", "progress", "files", "error:info"}
    /\ Del(cleanpc)
    /\ cleanpc' = CleanNextPc(cleanpc)
    /\ UNCHANGED <<created, queue, published, delivered, acks, wpc, wmsg,
                   wtag, wres, wlog, cancel, clientVars, threadVars, downloaderVars>>

\* ------------------------------------------------ the service on its own
ListNext ==
    \/ \E w \in DOMAIN wpc : list_session(w)
    \/ \E w \in DOMAIN wpc : list_handler(w)
    \/ \E w \in DOMAIN wpc : list_set_error(w)
    \/ \E w \in DOMAIN wpc : list_push_error(w)
    \/ \E w \in DOMAIN wpc : list_files(w)
    \/ \E w \in DOMAIN wpc : list_progress(w)

DownloadNext ==
    \/ \E w \in DOMAIN wpc : download_session(w)
    \/ \E w \in DOMAIN wpc : local_download(w)
    \/ \E w \in DOMAIN wpc : download_error_session(w)
    \/ \E w \in DOMAIN wpc : download_incr_error(w)
    \/ \E w \in DOMAIN wpc : download_push_error(w)
    \/ \E w \in DOMAIN wpc : download_progress_session(w)
    \/ \E w \in DOMAIN wpc : download_incr_progress(w)
    \/ \E w \in DOMAIN wpc : download_callback(w)

ConsumerNext ==
    \/ \E w \in DOMAIN wpc : callback_messages(w)
    \/ \E w \in DOMAIN wpc : basic_ack(w)

CleanNext ==
    \/ clean_call
    \/ clean_del

\* No download() call of a thread is followed step by step.
NoMkdir ==
    /\ file_dir = <<>>
    /\ mkpc = <<>>
    /\ disk_dirs = {}

\* No DownloadThread exists: the client is remote, or absent.
NoThreads ==
    /\ pool_size = 0
    /\ message_queue = <<>>
    /\ unfinished_tasks = 0
    /\ thpc = <<>>
    /\ thmsg = <<>>
    /\ therror = <<>>
    /\ calls = <<>>
    /\ failed = {}
    /\ NoMkdir

\* No downloader is driven directly in this specification (the workers'
\* downloaders are seen through their outcomes only).
NoAttempt ==
    [error |-> FALSE, transfer_ok |-> FALSE, probed |-> FALSE,
     probe_ok |-> FALSE]

NoDownload ==
    /\ stop_max = 0
    /\ skip_check_uncompress = FALSE
    /\ d_index = 0
    /\ attempt_number = 0
    /\ results = <<>>
    /\ d_calls = 0
    /\ last_attempt = NoAttempt
    /\ local_files = {}

NoCopy ==
    /\ files_to_copy = <<>>
    /\ available_files = <<>>
    /\ check_exists = FALSE
    /\ existing = {}

NoMatch ==
    /\ downloader_class = "none"
    /\ remote_tree = <<>>
    /\ patterns = <<>>
    /\ file_list = <<>>
    /\ dir_list = <<>>
    /\ list_calls = <<>>
    /\ match_raised = FALSE
    /\ remote_answer = "none"
    /\ list_result = "none"
    /\ self_save_as = <<"None">>

NoDownloader ==
    /\ dpc = "none"
    /\ dl_files_to_download = <<>>
    /\ NoDownload
    /\ NoCopy
    /\ NoMatch

\* Nobody calls download_errors.
NoErrors ==
    /\ epc = "none"
    /\ errors = <<>>
    /\ recorded = <<>>
    /\ returned = <<>>

\* An expression of a stop condition or of a wait policy, as simple_eval
\* parses it: a number, a name, a call name(args) or a binary operation
\* (name is the operator); `n` is the value of a number.
Expr(kind, name, n, args) ==
    [kind |-> kind, name |-> name, n |-> n, args |-> args]

\* options.get(key, default) found no such key.
NoExpr == Expr("absent", "", 0, <<>>)

\* BiomajConfig.DEFAULTS["stop_condition"] and ["wait_policy"], the strings
\* the constructor builds the first retryer from (lines 171-174).
DefaultExpr == Expr("default", "", 0, <<>>)

NoOptionsGiven == [skip |-> "absent", stop |-> NoExpr, wait |-> NoExpr]

\* Nobody calls set_options.
NoOptions ==
    /\ options = NoOptionsGiven
    /\ retryer = [stop |-> DefaultExpr, wait |-> DefaultExpr]
    /\ opt_result = "none"
    /\ opt_calls = 0

\* DownloadService.__init__, line 77: self.download_callback = None.
NoCallback == self_download_callback = "None"

\* on_download_callback(func), lines 117-118, was called or not: the
\* consumer script registers its function on_download
\* (bin/biomaj_download_consumer.py, line 48).
Callbacks == {"None", "on_download"}

NoApi == NoErrors /\ NoOptions /\ NoCallback

\* The client does not wait in this specification.
ClientIdle ==
    /\ cpc = "none"
    /\ rate_limiting = 0
    /\ redis_client = FALSE
    /\ files_to_download = 0
    /\ download_pool = <<>>
    /\ nb_submitted = 0
    /\ progress = 0
    /\ error = 0
    /\ max_submit = 0
    /\ download_error = FALSE
    /\ last_progress = 0
    /\ progress_log = <<>>

\* The client does not run in this specification.
NoClient ==
    /\ ClientIdle
    /\ NoApi

Init ==
    /\ InitService(ServiceWorkers)
    /\ cancel = FALSE
    /\ ClientIdle
    /\ NoErrors
    /\ NoOptions
    /\ self_download_callback \in Callbacks
    /\ NoThreads
    /\ NoDownloader

Next ==
    \/ CreateSession
    \/ \E m \in Messages : Publish(m)
    \/ ConsumerNext
    \/ ListNext
    \/ DownloadNext
    \/ CleanNext

Spec == Init /\ [][Next]_vars

\* ------------------------------------ a session used for one LIST job
\* The producer publishes one LIST operation (with patterns) for the
\* session and nothing else.
PublishList ==
    /\ published = 0
    /\ Publish(ListMsg)

NextList ==
    \/ CreateSession
    \/ PublishList
    \/ ConsumerNext
    \/ ListNext
    \/ CleanNext

SpecList == Init /\ [][NextList]_vars

\* ------------------------------------------------- the download client
\* DownloadClient in remote mode, with any rate limit and with or without
\* a redis client (the cancel flag is read only with one). Its messages
\* are handled by the consumers bin/biomaj_download_consumer.py starts,
\* which have the download callback registered.
InitClient ==
    /\ InitService(ClientWorkers)
    /\ cancel = FALSE
    /\ cpc = "new"
    /\ rate_limiting \in 0..MaxRate
    /\ redis_client \in BOOLEAN
    /\ files_to_download = 0
    /\ download_pool = <<>>
    /\ nb_submitted = 0
    /\ progress = 0
    /\ error = 0
    /\ max_submit = 0
    /\ download_error = FALSE
    /\ last_progress = 0
    /\ progress_log = <<>>
    /\ NoErrors
    /\ NoOptions
    /\ self_download_callback = "on_download"
    /\ NoThreads
    /\ NoDownloader

\* One step of the client that touches neither the store nor the queue.
ClientOnly ==
    UNCHANGED <<serviceVars, cancel, threadVars, downloaderVars>>

\* DownloadClient.create_session, lines 56-64: POST to the proxy, which
\* calls _create_session.
create_session ==
    /\ cpc = "new"
    /\ cpc' = "submit"
    /\ created' = TRUE
    /\ keys' = keys \cup {"session"}
    /\ UNCHANGED <<vError, vProgress, vFiles, errorInfo, queue, published,
                   delivered, acks, wpc, wmsg, wtag, wres, wlog, cleanpc,
                   cancel, rate_limiting, redis_client, logVars, apiVars, files_to_download,
                   download_pool, nb_submitted, progress, error, max_submit,
                   download_error, threadVars, downloaderVars>>

\* The DOWNLOAD operation download_remote_files builds for its n-th file.
Operation(n) == Message(TRUE, 1, 0, n)

\* DownloadClient.download_remote_file, lines 151-158 (self.remote): the
\* operation is held in the pool under a rate limit, published otherwise.
download_remote_file ==
    /\ cpc = "submit"
    /\ files_to_download < MaxFiles
    /\ files_to_download' = files_to_download + 1
    /\ IF rate_limiting > 0
         THEN /\ download_pool' =
                   Append(download_pool, Operation(files_to_download + 1))
              /\ UNCHANGED <<queue, published>>
         ELSE /\ ask_download(Operation(files_to_download + 1))
              /\ UNCHANGED download_pool
    /\ UNCHANGED <<storeVars, created, delivered, acks, wpc, wmsg, wtag, wres,
                   wlog, cleanpc, cancel, cpc, rate_limiting, redis_client, logVars, apiVars,
                   nb_submitted, progress, error, max_submit, download_error,
                   threadVars, downloaderVars>>

\* wait_for_download is called, lines 190-196.
wait_for_download ==
    /\ cpc = "submit"
    /\ cpc' = "wait_cancel"
    /\ nb_submitted' = 0
    /\ download_error' = FALSE
    /\ ClientOnly
    /\ last_progress' = 0
    /\ UNCHANGED <<rate_limiting, redis_client, files_to_download,
                   download_pool, progress, error, max_submit, progress_log,
                   apiVars>>

\* Line 199: at the top of each iteration, GET action:cancel (only with a
\* redis client).
wait_cancel ==
    /\ cpc = "wait_cancel"
    /\ cpc' = IF redis_client /\ cancel THEN "cancel_delete"
                                         ELSE "status_error"
    /\ ClientOnly
    /\ UNCHANGED <<rate_limiting, redis_client, logVars, apiVars, files_to_download,
                   download_pool, nb_submitted, progress, error, max_submit,
                   download_error>>

\* The locals nb_submitted, progress, error and the loop counter are gone
\* once wait_for_download has returned or raised.
LocalsDropped(pc) ==
    IF pc \in {"returned", "canceled", "raised"}
    THEN /\ nb_submitted' = 0
         /\ progress' = 0
         /\ error' = 0
         /\ max_submit' = 0
    ELSE /\ max_submit' = 0
         /\ UNCHANGED <<nb_submitted, progress, error>>

cancel_raise_without_delete ==
    /\ cpc = "cancel_delete"
    /\ cpc' = "canceled"
    /\ LocalsDropped(cpc')
    /\ UNCHANGED <<serviceVars, cancel, rate_limiting, redis_client, logVars, apiVars,
                   files_to_download, download_pool, download_error,
                   threadVars, downloaderVars>>

\* Lines 201-202: DEL action:cancel, then raise.
cancel_delete ==
    /\ cpc = "cancel_delete"
    /\ cancel' = FALSE
    /\ cpc' = "canceled"
    /\ LocalsDropped(cpc')
    /\ UNCHANGED <<serviceVars, rate_limiting, redis_client, logVars, apiVars,
                   files_to_download, download_pool, download_error,
                   threadVars, downloaderVars>>

\* DownloadService.download_status, lines 272-278: a counter whose key is
\* absent is reported as -1.
StatusValue(k, v) == IF HasKey(k) THEN v ELSE -1

\* download_status, line 272: GET <session>:error.
status_error ==
    /\ cpc = "status_error"
    /\ error' = StatusValue("error", vError)
    /\ cpc' = "status_progress"
    /\ ClientOnly
    /\ UNCHANGED <<rate_limiting, redis_client, logVars, apiVars, files_to_download,
                   download_pool, nb_submitted, progress, max_submit,
                   download_error>>

MaxSubmitIgnoringInFlight(rate, pool, submitted, prog) ==
    IF rate > 0 /\ pool # <<>> THEN rate ELSE 0

\* wait_for_download, lines 205-212: the number of iterations of the
\* publishing loop, range(max_submit), given the progress just read.
MaxSubmit(rate, pool, submitted, prog) ==
    IF rate > 0 /\ pool # <<>>
    THEN LET m == IF submitted # 0 THEN rate - (submitted - prog) ELSE rate
         IN IF m > 0 THEN m ELSE 0
    ELSE 0

\* download_status, line 273: GET <session>:progress; the status is
\* returned and wait_for_download sizes its publishing loop.
status_progress ==
    /\ cpc = "status_progress"
    /\ progress' = StatusValue("progress", vProgress)
    /\ max_submit' =
         MaxSubmit(rate_limiting, download_pool, nb_submitted, progress')
    /\ cpc' = "publish"
    /\ ClientOnly
    /\ UNCHANGED <<rate_limiting, redis_client, logVars, apiVars, files_to_download,
                   download_pool, nb_submitted, error, download_error>>

publish_pending_without_pop ==
    /\ cpc = "publish"
    /\ max_submit > 0
    /\ download_pool # <<>>
    /\ ask_download(download_pool[Len(download_pool)])
    /\ nb_submitted' = nb_submitted + 1
    /\ max_submit' = max_submit - 1
    /\ UNCHANGED <<storeVars, created, delivered, acks, wpc, wmsg, wtag, wres,
                   wlog, cleanpc, cancel, cpc, rate_limiting, redis_client,
                   logVars, apiVars, files_to_download, download_pool, progress, error,
                   download_error, threadVars, downloaderVars>>

\* Lines 212-217: one iteration of the publishing loop that finds the pool
\* not empty: pop() takes the last operation of the pool.
publish_pending ==
    /\ cpc = "publish"
    /\ max_submit > 0
    /\ download_pool # <<>>
    /\ ask_download(download_pool[Len(download_pool)])
    /\ download_pool' = SubSeq(download_pool, 1, Len(download_pool) - 1)
    /\ nb_submitted' = nb_submitted + 1
    /\ max_submit' = max_submit - 1
    /\ UNCHANGED <<storeVars, created, delivered, acks, wpc, wmsg, wtag, wres,
                   wlog, cleanpc, cancel, cpc, rate_limiting, redis_client, logVars, apiVars,
                   files_to_download, progress, error, download_error,
                   threadVars, downloaderVars>>

\* Lines 219-230, after the publishing loop: the wait is over when
\* progress >= nb_files_to_download; otherwise the percentage
\* progress // nb_files_to_download is computed (a division by zero when
\* no file was submitted) and the client sleeps. Then, with error > 0,
\* download_error is set and the error messages are fetched.
AfterStatus(prog, err, total) ==
    IF prog < total /\ total = 0 THEN "raised"
    ELSE IF err > 0
         THEN (IF prog >= total THEN "errors_over" ELSE "errors_loop")
         ELSE (IF prog >= total THEN "returned" ELSE "wait_cancel")

\* Line 224: progress_percent = (progress // nb_files_to_download) * 100
\* (computed only when nb_files_to_download is not 0; // rounds down).
ProgressPercent(prog, total) ==
    IF total = 0 THEN 0 ELSE (prog \div total) * 100

check_progress ==
    /\ cpc = "publish"
    /\ max_submit = 0 \/ download_pool = <<>>
    /\ cpc' = AfterStatus(progress, error, files_to_download)
    /\ IF /\ progress < files_to_download
          /\ ProgressPercent(progress, files_to_download) > last_progress
         THEN /\ last_progress' =
                   ProgressPercent(progress, files_to_download)
              /\ progress_log' = Append(progress_log, last_progress')
         ELSE UNCHANGED logVars
    /\ UNCHANGED apiVars
    /\ download_error' =
         IF cpc' \in {"errors_over", "errors_loop"} THEN TRUE
                                                     ELSE download_error
    /\ LocalsDropped(cpc')
    /\ ClientOnly
    /\ UNCHANGED <<rate_limiting, redis_client, files_to_download,
                   download_pool>>

\* Line 231 and download_errors, lines 261-264: one RPOP of error:info
\* (the right end of the list); after a truthy value the loop `while
\* error:` goes on, anything else (None for an empty list, or an empty
\* message, which is removed too) ends the fetch, and the client's loop
\* goes on or the wait returns.
download_errors ==
    /\ cpc \in {"errors_over", "errors_loop"}
    /\ IF errorInfo # <<>> /\ Truthy(errorInfo[Len(errorInfo)])
         THEN UNCHANGED cpc
         ELSE cpc' = IF cpc = "errors_over" THEN "returned"
                                           ELSE "wait_cancel"
    /\ errorInfo' = IF errorInfo = <<>> THEN errorInfo
                    ELSE SubSeq(errorInfo, 1, Len(errorInfo) - 1)
    /\ LocalsDropped(cpc')
    /\ UNCHANGED <<keys, vError, vProgress, vFiles, created, queue, published,
                   delivered, acks, wpc, wmsg, wtag, wres, wlog, cleanpc,
                   cancel, rate_limiting, redis_client, logVars, apiVars, files_to_download,
                   download_pool, download_error, threadVars, downloaderVars>>

\* The wait has ended: it returned, was cancelled or raised.
ClientEnded == cpc \in {"returned", "canceled", "raised"}

\* DownloadClient.clean, lines 247-254: DELETE to the proxy, once the wait
\* has ended.
client_clean ==
    /\ ClientEnded
    /\ clean_call

\* Somebody asks to cancel the bank's update: SET action:cancel.
SetCancel ==
    /\ cpc \notin {"new", "returned", "canceled", "raised"}
    /\ ~cancel
    /\ cancel' = TRUE
    /\ UNCHANGED <<serviceVars, clientVars, threadVars, downloaderVars>>

ClientNext ==
    \/ create_session
    \/ download_remote_file
    \/ wait_for_download
    \/ wait_cancel
    \/ status_error
    \/ status_progress
    \/ publish_pending
    \/ check_progress
    \/ download_errors
    \/ client_clean

NextClient ==
    \/ ClientNext
    \/ cancel_delete
    \/ SetCancel
    \/ ConsumerNext
    \/ DownloadNext
    \/ clean_del

SpecClient == InitClient /\ [][NextClient]_vars

\* --------------------------------------------- at-least-once delivery
\* The consumer acks by hand (basic_consume without no_ack, lines 477-480),
\* so a delivery whose basic_ack does not reach the broker (the channel
\* closed while the handler ran) is queued again, flagged redelivered, and
\* the consumer that takes over starts from an idle callback. The case
\* followed here is the one of a job already handled: the worker stands at
\* its basic_ack.
redeliver(w) ==
    /\ wpc[w] = "ack"
    /\ delivered + Len(queue) + Len(download_pool) < MaxTags
    /\ queue' = <<[wmsg[w] EXCEPT !.redelivered = TRUE]>> \o queue
    /\ wpc' = [wpc EXCEPT ![w] = "idle"]
    /\ wmsg' = [wmsg EXCEPT ![w] = NoMsg]
    /\ wtag' = [wtag EXCEPT ![w] = 0]
    /\ wres' = [wres EXCEPT ![w] = "none"]
    /\ wlog' = [wlog EXCEPT ![w] = NoLog]
    /\ UNCHANGED <<storeVars, created, published, delivered, acks, cleanpc,
                   cancel, clientVars, threadVars, downloaderVars>>

\* The client without a redis client: nobody can cancel, and the session
\* is alive until the wait has ended.
InitRedeliver ==
    /\ InitClient
    /\ ~redis_client

NextRedeliver ==
    \/ ClientNext
    \/ ConsumerNext
    \/ DownloadNext
    \/ clean_del
    \/ \E w \in DOMAIN wpc : redeliver(w)

SpecRedeliver == InitRedeliver /\ [][NextRedeliver]_vars

\* The client and the workers when nobody asks to cancel: the client keeps
\* polling (its loop only sleeps between iterations) and every consumer
\* keeps handling the deliveries it gets.
NextClientLive ==
    \/ ClientNext
    \/ ConsumerNext
    \/ DownloadNext
    \/ clean_del

SpecClientLive ==
    /\ InitClient
    /\ [][NextClientLive]_vars
    /\ WF_vars(ClientNext)
    /\ WF_vars(ConsumerNext \/ DownloadNext)

\* ------------------------------------- the download client, local mode
\* Largest pool_size the client is given (set_queue_size).
MaxThreads == 2

\* The DownloadThread objects _download_pool_files can create.
Threads == 1..MaxThreads

\* DownloadClient without rabbitmq_host (self.remote is False): the pool is
\* drained by pool_size DownloadThread workers.
InitLocal ==
    /\ InitService(ServiceWorkers)
    /\ cancel = FALSE
    /\ cpc = "submit"
    /\ rate_limiting = 0
    /\ redis_client = FALSE
    /\ files_to_download = 0
    /\ download_pool = <<>>
    /\ nb_submitted = 0
    /\ progress = 0
    /\ error = 0
    /\ max_submit = 0
    /\ download_error = FALSE
    /\ last_progress = 0
    /\ progress_log = <<>>
    /\ NoApi
    /\ pool_size \in 0..MaxThreads
    /\ message_queue = <<>>
    /\ unfinished_tasks = 0
    /\ thpc = [t \in Threads |-> "unborn"]
    /\ thmsg = [t \in Threads |-> NoMsg]
    /\ therror = [t \in Threads |-> 0]
    /\ calls = [j \in 1..MaxFiles |-> 0]
    /\ failed = {}
    /\ NoMkdir
    /\ NoDownloader

\* One step of the local client or of a thread: the store, the broker and
\* the client's remote-mode fields are not involved.
LocalOnly ==
    UNCHANGED <<serviceVars, cancel, rate_limiting, redis_client, logVars, apiVars,
                nb_submitted, progress, error, max_submit, pool_size,
                mkdirVars, downloaderVars>>

\* DownloadClient.download_remote_file, lines 153 and 159-160 (not
\* self.remote): the DownloadFile message is appended to the pool.
download_local_file ==
    /\ cpc = "submit"
    /\ files_to_download < MaxFiles
    /\ files_to_download' = files_to_download + 1
    /\ download_pool' = Append(download_pool, Operation(files_to_download + 1))
    /\ LocalOnly
    /\ UNCHANGED <<cpc, download_error, message_queue, unfinished_tasks,
                   thpc, thmsg, therror, calls, failed>>

\* wait_for_download, line 239, and _download_pool_files, lines 167-169:
\* every message of the pool is put in a new Queue.
fill_queue ==
    /\ cpc = "submit"
    /\ cpc' = "start_threads"
    /\ message_queue' = download_pool
    /\ unfinished_tasks' = Len(download_pool)
    /\ LocalOnly
    /\ UNCHANGED <<files_to_download, download_pool, download_error, thpc,
                   thmsg, therror, calls, failed>>

\* The number of DownloadThread objects created so far.
Started == Cardinality({t \in Threads : thpc[t] # "unborn"})

\* _download_pool_files, lines 173-176: one iteration of the loop that
\* creates and starts pool_size threads; then the join is reached.
start_thread ==
    /\ cpc = "start_threads"
    /\ IF Started < pool_size
         THEN /\ thpc' = [thpc EXCEPT ![Started + 1] = "get"]
              /\ UNCHANGED cpc
         ELSE /\ cpc' = "join"
              /\ UNCHANGED thpc
    /\ LocalOnly
    /\ UNCHANGED <<files_to_download, download_pool, download_error,
                   message_queue, unfinished_tasks, thmsg, therror, calls,
                   failed>>

\* DownloadThread.run, lines 30-32 and 44-47: queue.get(False) takes the
\* next message, or raises Empty and the thread ends.
thread_get(t) ==
    /\ thpc[t] = "get"
    /\ IF message_queue = <<>>
         THEN /\ thpc' = [thpc EXCEPT ![t] = "ended"]
              /\ UNCHANGED <<message_queue, thmsg>>
         ELSE /\ thpc' = [thpc EXCEPT ![t] = "local_download"]
              /\ thmsg' = [thmsg EXCEPT ![t] = Head(message_queue)]
              /\ message_queue' = Tail(message_queue)
    /\ LocalOnly
    /\ UNCHANGED <<cpc, files_to_download, download_pool, download_error,
                   unfinished_tasks, therror, calls, failed>>

\* What self.ds.local_download(message) does: it returns the files,
\* returns None, or raises.
LocalDownloadOutcomes == {"files", "none", "raise"}

\* DownloadThread.run, lines 34-42: local_download is called with the
\* message; th.error is incremented when it returns None or raises.
thread_local_download(t) ==
    /\ thpc[t] = "local_download"
    /\ \E res \in LocalDownloadOutcomes :
         /\ therror' = [therror EXCEPT ![t] = IF res = "files" THEN @ ELSE @ + 1]
         /\ failed' = IF res = "files" THEN failed
                                       ELSE failed \cup {thmsg[t].file}
    /\ calls' = [calls EXCEPT ![thmsg[t].file] = @ + 1]
    /\ thpc' = [thpc EXCEPT ![t] = "task_done"]
    /\ LocalOnly
    /\ UNCHANGED <<cpc, files_to_download, download_pool, download_error,
                   message_queue, unfinished_tasks, thmsg>>

\* DownloadThread.run, line 43: queue.task_done().
thread_task_done(t) ==
    /\ thpc[t] = "task_done"
    /\ unfinished_tasks' = unfinished_tasks - 1
    /\ thpc' = [thpc EXCEPT ![t] = "get"]
    /\ thmsg' = [thmsg EXCEPT ![t] = NoMsg]
    /\ LocalOnly
    /\ UNCHANGED <<cpc, files_to_download, download_pool, download_error,
                   message_queue, therror, calls, failed>>

JoinWithoutWaiting == TRUE

\* Queue.join() returns when every put() was matched by a task_done().
JoinReturns == unfinished_tasks = 0

\* _download_pool_files, lines 181-187: the number of threads with
\* th.error > 0.
NbError == Cardinality({t \in Threads : thpc[t] # "unborn" /\ therror[t] > 0})

\* _download_pool_files, lines 178-187, and wait_for_download, lines
\* 239-245: message_queue.join() returns, the threads' errors are counted
\* and wait_for_download returns error > 0.
join_and_return ==
    /\ cpc = "join"
    /\ JoinReturns
    /\ cpc' = "returned"
    /\ download_error' = (NbError > 0)
    /\ LocalOnly
    /\ UNCHANGED <<files_to_download, download_pool, message_queue,
                   unfinished_tasks, thpc, thmsg, therror, calls, failed>>

ThreadNext ==
    \/ \E t \in Threads : thread_get(t)
    \/ \E t \in Threads : thread_local_download(t)
    \/ \E t \in Threads : thread_task_done(t)

NextLocal ==
    \/ download_local_file
    \/ fill_queue
    \/ start_thread
    \/ join_and_return
    \/ ThreadNext

SpecLocal == InitLocal /\ [][NextLocal]_vars

\* --------------------------------- DownloadInterface.download (retries)
\* Largest n of stop_after_attempt(n) the downloader is configured with.
MaxAttempts == 2

\* Number of download() calls made on one downloader.
MaxCalls == 2

\* Value standing for a file dict without the key download_time.
NoTime == -1

\* Longest transfer, in seconds (end_time - start_time).
MaxTime == 1

\* The values of save_as, which decide the file_path under local_dir
\* (download(), lines 530-536).
SavePaths == {"p1", "p2"}

\* A file dict as download() reads and writes it: save_as, error (FALSE
\* when the key is absent) and download_time (NoTime when the key is
\* absent). A new dict has neither key.
NewFile(save_as) ==
    [save_as |-> save_as, error |-> FALSE, download_time |-> NoTime]

\* The entries of the list at the positions `order` names, in that order.
Keep(held, order) == [i \in DOMAIN order |-> held[order[i]]]

\* The lists the callers in this repository give to
\* set_files_to_download: new dicts (get_handler, line 186, and the
\* tests), or entries of the list the downloader holds, which carry what
\* download() wrote in them (download_or_copy, line 481). download_or_copy
\* sorts the held list by name first (line 440) and gives the entries it
\* keeps in the sorted order; the names are what the caller chose, so the
\* kept entries come in any order, each once.
GivenLists(held) ==
    LET orders == {o \in UNION {[1..n -> DOMAIN held] : n \in 0..Len(held)} :
                     \A i, j \in DOMAIN o : i # j => o[i] # o[j]}
    IN  UNION {[1..n -> {NewFile(p) : p \in SavePaths}] : n \in 0..MaxFiles}
        \cup {Keep(held, o) : o \in orders}

\* A downloader that uses DownloadInterface.download (CurlDownload), just
\* constructed (files_to_download = [], line 142), with the retryer built
\* by _set_retryer from stop_after_attempt(stop_max); local_dir may hold
\* files already.
InitDownload ==
    /\ InitService(ServiceWorkers)
    /\ cancel = FALSE
    /\ NoClient
    /\ NoThreads
    /\ dpc = "idle"
    /\ dl_files_to_download = <<>>
    /\ local_files \in SUBSET SavePaths
    /\ stop_max \in 1..MaxAttempts
    /\ skip_check_uncompress \in BOOLEAN
    /\ d_index = 0
    /\ attempt_number = 0
    /\ results = [i \in 1..MaxFiles |-> <<>>]
    /\ d_calls = 0
    /\ last_attempt = NoAttempt
    /\ NoCopy
    /\ NoMatch

\* One step of download(): nothing else moves.
DownloaderOnly ==
    UNCHANGED <<serviceVars, cancel, clientVars, threadVars, copyVars,
                matchVars>>

\* set_files_to_download, lines 336-342: the list is emptied and the
\* caller's dicts are appended as they are, in their order; nothing on the
\* disk is touched. The calls are followed as long as a download() call
\* can come after them.
set_files_to_download ==
    /\ dpc \in {"idle", "raised", "returned"}
    /\ d_calls < MaxCalls
    /\ dpc' = "idle"
    /\ \E files \in GivenLists(dl_files_to_download) :
         dl_files_to_download' = files
    /\ DownloaderOnly
    /\ UNCHANGED downloadVars

\* download() is called, lines 521-525.
download_call ==
    /\ dpc \in {"idle", "raised", "returned"}
    /\ d_calls < MaxCalls
    /\ d_calls' = d_calls + 1
    /\ dpc' = "file"
    /\ d_index' = 1
    /\ results' = [i \in 1..MaxFiles |-> <<>>]
    /\ DownloaderOnly
    /\ UNCHANGED <<dl_files_to_download, stop_max, skip_check_uncompress,
                   attempt_number, last_attempt, local_files>>

\* download(), lines 526-550: the loop takes the next file of the list and
\* hands _download to the retryer, whose attempt number starts at 1
\* (Retrying.begin); past the end of the list download() returns (562).
next_file ==
    /\ dpc = "file"
    /\ IF d_index <= Len(dl_files_to_download)
         THEN /\ dpc' = "attempt"
              /\ attempt_number' = 1
         ELSE /\ dpc' = "returned"
              /\ UNCHANGED attempt_number
    /\ DownloaderOnly
    /\ UNCHANGED <<dl_files_to_download, stop_max, skip_check_uncompress,
                   d_index, results, d_calls, last_attempt, local_files>>

DownloadErrorWithoutProbe(skip, transfer_ok, probe_ok) == ~transfer_ok

\* The value _download returns (True = error): CurlDownload._download
\* returns True when the transfer failed (lines 369-370); otherwise
\* DownloadInterface._download returns False without a probe when
\* skip_check_uncompress is set, else the negated result of archive_check.
DownloadError(skip, transfer_ok, probe_ok) ==
    IF ~transfer_ok THEN TRUE
    ELSE IF skip THEN FALSE
    ELSE ~probe_ok

\* One _download call: the local file is opened for writing (created), the
\* transfer succeeds or not; after a successful transfer, unless
\* skip_check_uncompress, the file is probed as an archive and removed
\* when the probe fails.
download_attempt ==
    /\ dpc = "attempt"
    /\ \E transfer_ok \in BOOLEAN, probe_ok \in BOOLEAN :
         LET probed == transfer_ok /\ ~skip_check_uncompress
             err == DownloadError(skip_check_uncompress, transfer_ok,
                                  probe_ok)
         IN /\ probed \/ ~probe_ok
            /\ last_attempt' =
                 [error |-> err, transfer_ok |-> transfer_ok,
                  probed |-> probed, probe_ok |-> probe_ok]
            /\ results' = [results EXCEPT ![d_index] = Append(@, err)]
            /\ local_files' =
                 IF probed /\ ~probe_ok
                   THEN local_files \ {dl_files_to_download[d_index].save_as}
                   ELSE local_files
                            \cup {dl_files_to_download[d_index].save_as}
    /\ dpc' = "outcome"
    /\ DownloaderOnly
    /\ UNCHANGED <<dl_files_to_download, stop_max, skip_check_uncompress,
                   d_index, attempt_number, d_calls>>

\* retry_if_result(is_true): another attempt is wanted while _download
\* returns True.
is_true(download_error_value) == download_error_value = TRUE

stop_after_one_more(n, attempt) == attempt > n

\* tenacity.stop_after_attempt(n): stop once the attempt number reaches n.
stop_after_attempt(n, attempt) == attempt >= n

\* The retryer after a failed attempt that does not stop: it waits and
\* calls _download again with the next attempt number.
retry_again ==
    /\ dpc = "outcome"
    /\ is_true(last_attempt.error)
    /\ ~stop_after_attempt(stop_max, attempt_number)
    /\ attempt_number' = attempt_number + 1
    /\ dpc' = "attempt"
    /\ DownloaderOnly
    /\ UNCHANGED <<dl_files_to_download, stop_max, skip_check_uncompress,
                   d_index, results, d_calls, last_attempt, local_files>>

\* The retryer stops after a failed attempt and returns the last value
\* (return_last_value); download(), lines 551-554, flags the file and
\* raises.
retry_stop ==
    /\ dpc = "outcome"
    /\ is_true(last_attempt.error)
    /\ stop_after_attempt(stop_max, attempt_number)
    /\ dl_files_to_download' =
         [dl_files_to_download EXCEPT ![d_index].download_time = 0,
                                      ![d_index].error = TRUE]
    /\ dpc' = "raised"
    /\ DownloaderOnly
    /\ UNCHANGED downloadVars

\* The retryer returns False; download(), lines 555-560, records the
\* download time and goes to the next file.
file_done ==
    /\ dpc = "outcome"
    /\ ~is_true(last_attempt.error)
    /\ \E t \in 0..MaxTime :
         dl_files_to_download' =
             [dl_files_to_download EXCEPT ![d_index].download_time = t]
    /\ d_index' = d_index + 1
    /\ dpc' = "file"
    /\ DownloaderOnly
    /\ UNCHANGED <<stop_max, skip_check_uncompress, attempt_number, results,
                   d_calls, last_attempt, local_files>>

NextDownload ==
    \/ set_files_to_download
    \/ download_call
    \/ next_file
    \/ download_attempt
    \/ retry_again
    \/ retry_stop
    \/ file_done

SpecDownload == InitDownload /\ [][NextDownload]_vars

\* ------------------------------------ DownloadInterface.download_or_copy
\* Longest inventory given to download_or_copy.
MaxAvailable == 2

\* File names, in the order in which Python sorts them; none holds '//',
\* so that _append_file_to_download leaves them as they are.
CopyNames == <<"/test1", "/test2">>

\* Position of a name in the sort order.
NameRank(name) == CHOOSE k \in DOMAIN CopyNames : CopyNames[k] = name

\* The (year, month, day, size) values a file dict can hold: one base
\* value and one variation of each field.
Metas ==
    {[year |-> 2013, month |-> 11, day |-> 10, size |-> 10],
     [year |-> 2014, month |-> 11, day |-> 10, size |-> 10],
     [year |-> 2013, month |-> 12, day |-> 10, size |-> 10],
     [year |-> 2013, month |-> 11, day |-> 11, size |-> 10],
     [year |-> 2013, month |-> 11, day |-> 10, size |-> 20]}

\* The directory given as root_dir, and the root a remote file has.
RootDir == "root_dir"

RemoteRoot == "remote"

\* A file dict of a listing or of an inventory.
FileDict(name, meta, root) ==
    [name |-> name, year |-> meta.year, month |-> meta.month,
     day |-> meta.day, size |-> meta.size, root |-> root]

FileDicts ==
    {FileDict(CopyNames[k], m, RemoteRoot) : k \in DOMAIN CopyNames, m \in Metas}

\* The lists of at most n file dicts.
FileLists(n) == UNION {[1..k -> FileDicts] : k \in 0..n}

\* The tuple download_or_copy compares, lines 444-445.
FileTuple(d) == <<d.name, d.year, d.month, d.day, d.size>>

\* list.sort(key=lambda x: x['name']): a stable sort by name.
RECURSIVE SortByName(_)
SortByName(files) ==
    IF files = <<>> THEN <<>>
    ELSE LET front == SortByName(SubSeq(files, 1, Len(files) - 1))
             x == files[Len(files)]
             n == Cardinality({i \in DOMAIN front :
                                  NameRank(front[i].name) <= NameRank(x.name)})
         IN SubSeq(front, 1, n) \o <<x>> \o SubSeq(front, n + 1, Len(front))

\* Lines 444-447: the names of the tuples of files_to_download that are
\* not tuples of the inventory, one per tuple, sorted.
RECURSIVE NamesFrom(_, _)
NamesFrom(tuples, k) ==
    IF k > Len(CopyNames) THEN <<>>
    ELSE LET n == Cardinality({t \in tuples : t[1] = CopyNames[k]})
         IN [i \in 1..n |-> CopyNames[k]] \o NamesFrom(tuples, k + 1)

NewOrModifiedFiles(to_download, available) ==
    NamesFrom({FileTuple(to_download[i]) : i \in DOMAIN to_download}
                \ {FileTuple(available[i]) : i \in DOMAIN available}, 1)

\* Lines 460-468 and 472-479: a file that is not kept as new or modified
\* is copied when check_exists is false or it exists under root_dir.
Copied(dfile, check, on_disk) == ~check \/ dfile.name \in on_disk

\* Lines 450-479: the walk over the sorted files_to_download, from
\* position i with `index` in the sorted new_or_modified_files; it yields
\* new_files_to_download and files_to_copy. With no new or modified file
\* every file takes the copy branch.
RECURSIVE CopyWalk(_, _, _, _, _, _)
CopyWalk(to_download, i, new_or_modified, index, check, on_disk) ==
    IF i > Len(to_download) THEN [download |-> <<>>, copy |-> <<>>]
    ELSE LET dfile == to_download[i]
             kept == /\ index <= Len(new_or_modified)
                     /\ dfile.name = new_or_modified[index]
             rest == CopyWalk(to_download, i + 1, new_or_modified,
                              IF kept THEN index + 1 ELSE index, check,
                              on_disk)
         IN IF kept
              THEN [rest EXCEPT !.download = <<dfile>> \o @]
            ELSE IF Copied(dfile, check, on_disk)
              THEN [rest EXCEPT
                      !.copy = <<[dfile EXCEPT !.root = RootDir]>> \o @]
            ELSE [rest EXCEPT !.download = <<dfile>> \o @]

\* A downloader whose files_to_download was set (by match or by
\* set_files_to_download), and the arguments of one download_or_copy call.
InitCopy ==
    /\ InitService(ServiceWorkers)
    /\ cancel = FALSE
    /\ NoClient
    /\ NoThreads
    /\ NoDownload
    /\ dpc = "idle"
    /\ dl_files_to_download \in FileLists(MaxFiles)
    /\ available_files \in FileLists(MaxAvailable)
    /\ check_exists \in BOOLEAN
    /\ existing \in SUBSET {CopyNames[k] : k \in DOMAIN CopyNames}
    /\ check_exists \/ existing = {}
    /\ files_to_copy = <<>>
    /\ NoMatch

\* download_or_copy(available_files, root_dir, check_exists), lines
\* 435-481.
download_or_copy ==
    /\ dpc = "idle"
    /\ dpc' = "copied"
    /\ IF available_files = <<>>
         THEN /\ files_to_copy' = <<>>
              /\ UNCHANGED <<dl_files_to_download, available_files>>
         ELSE LET sorted == SortByName(dl_files_to_download)
                  walk == CopyWalk(sorted, 1,
                                   NewOrModifiedFiles(sorted, available_files),
                                   1, check_exists, existing)
              IN /\ available_files' = SortByName(available_files)
                 /\ files_to_copy' = walk.copy
                 /\ dl_files_to_download' = walk.download
    /\ UNCHANGED <<serviceVars, cancel, clientVars, threadVars, downloadVars,
                   check_exists, existing, matchVars>>

NextCopy == download_or_copy

SpecCopy == InitCopy /\ [][NextCopy]_vars

\* ------------------------------------------------ match (listing matcher)
\* Longest pattern list given to match.
MaxPatterns == 2

\* Largest number of files in the remote tree.
MaxTreeFiles == 2

\* Names are sequences of tokens: "/" and the base names of files and
\* directories. File names and directory names as a listing orders them.
FileOrder == <<"a", "b">>

DirOrder == <<"d", "e">>

\* The directories a remote tree can hold besides its top directory, as
\* paths from the top.
DirSets ==
    {{}, {<<"d">>}, {<<"e">>}, {<<"d">>, <<"e">>},
     {<<"d">>, <<"d", "d">>}, {<<"d">>, <<"d", "e">>}}

\* Number of files of a tree.
RECURSIVE TreeSize(_, _)
TreeSize(tree, dirs) ==
    IF dirs = {} THEN 0
    ELSE LET d == CHOOSE x \in dirs : TRUE
         IN Cardinality(tree[d]) + TreeSize(tree, dirs \ {d})

\* A remote tree maps every directory (<<>> is the top) to the base names
\* of its files.
Trees ==
    {tree \in UNION {[ds \cup {<<>>} -> SUBSET {"a", "b"}] : ds \in DirSets} :
        TreeSize(tree, DOMAIN tree) <= MaxTreeFiles}

\* A pattern is held as the list pattern.split('/') gives: regular
\* expressions "a", "d" (a literal), ".*" (anything), the first segment
\* '^', and the wildcard '**/*'.
AllPattern == <<"**", "*">>

Patterns ==
    {<<"a">>, <<".*">>, <<"d", "a">>, <<".*", ".*">>, <<"d", "d", ".*">>,
     <<"^", "a">>, <<"^", "d", "a">>, AllPattern}

\* The downloader's rootdir, and the value standing for a file dict
\* without the key root.
Rootdir == "/rootdir"

NoRoot == ""

\* Classes by the match and _append_file_to_download they use:
\* CurlDownload has DownloadInterface.match and sets root in its
\* _append_file_to_download; RSYNCDownload has DownloadInterface.match and
\* DownloadInterface._append_file_to_download; FTPDownload has its own
\* match.
Classes == {"CurlDownload", "RSYNCDownload", "FTPDownload"}

\* re.match(regex, name) for the regular expressions above: the empty
\* expression and '.*' match every name, a literal matches a name that
\* starts with it.
ReMatch(regex, name) ==
    \/ regex \in {"", ".*"}
    \/ name # <<>> /\ name[1] = regex

\* '/'.join(segments), again as the list its split gives: the join of no
\* segment is the empty pattern.
Join(segments) == IF segments = <<>> THEN <<"">> ELSE segments

\* The directory a list() argument prefix + '/' + subdir + '/' names.
PathOf(directory) == SelectSeq(directory, LAMBDA t : t # "/")

\* list(directory): the files of the directory as new file dicts (name and
\* no root) and the names of its sub-directories.
list(directory) ==
    LET path == PathOf(directory)
        entry(n) == [name |-> <<n>>, root |-> NoRoot]
    IN [files |-> [i \in 1..Len(SelectSeq(FileOrder,
                                 LAMBDA n : n \in remote_tree[path])) |->
                     entry(SelectSeq(FileOrder,
                                 LAMBDA n : n \in remote_tree[path])[i])],
        dirs |-> SelectSeq(DirOrder,
                           LAMBDA n : (path \o <<n>>) \in DOMAIN remote_tree)]

\* re.sub('//+', '/', name).
RECURSIVE Collapse(_)
Collapse(name) ==
    IF Len(name) < 2 THEN name
    ELSE IF name[1] = "/" /\ name[2] = "/" THEN Collapse(Tail(name))
    ELSE <<name[1]>> \o Collapse(Tail(name))

RenamedAlways(prefix, name) == prefix \o <<"/">> \o name

\* `if prefix != '': rfile['name'] = prefix + '/' + rfile['name']`.
Renamed(prefix, name) ==
    IF prefix # <<>> THEN prefix \o <<"/">> \o name ELSE name

\* What a match does to a file dict it selects: FTPDownload.match sets root
\* and renames; DownloadInterface.match renames and calls
\* _append_file_to_download, which (CurlDownload) sets a missing root and
\* (DownloadInterface) removes repeated '/' from the name.
Selected(class, prefix, rfile) ==
    CASE class = "FTPDownload" ->
           [name |-> Renamed(prefix, rfile.name), root |-> Rootdir]
      [] class = "CurlDownload" ->
           [name |-> Collapse(Renamed(prefix, rfile.name)),
            root |-> IF rfile.root = NoRoot THEN Rootdir ELSE rfile.root]
      [] OTHER ->
           [name |-> Collapse(Renamed(prefix, rfile.name)),
            root |-> rfile.root]

\* The loop `for rfile in file_list: if re.match(pattern, name): ...`: the
\* listing with the selected dicts changed in place, and the dicts
\* appended to files_to_download.
SelectFiles(class, files, prefix, regex) ==
    LET hit(i) == ReMatch(regex, files[i].name)
        changed == [i \in DOMAIN files |->
                      IF hit(i) THEN Selected(class, prefix, files[i])
                                ELSE files[i]]
        RECURSIVE Out(_)
        Out(i) == IF i > Len(files) THEN <<>>
                  ELSE (IF hit(i) THEN <<changed[i]>> ELSE <<>>) \o Out(i + 1)
    IN [file_list |-> changed, out |-> Out(1)]

RECURSIVE match(_, _, _, _, _, _, _)
RECURSIVE MatchPatterns(_, _, _, _, _, _, _)
RECURSIVE MatchDirs(_, _, _, _, _, _, _)

\* The loop `for direlt in dir_list` for one pattern with sub-directories:
\* every sub-directory (wildcard) or every one whose name matches the
\* first segment is listed and matched against the rest of the pattern,
\* with submatch = True. st holds files_to_download, the directories
\* listed so far and whether a call has raised.
MatchDirs(class, pattern, subdirs_pattern, dirs, j, prefix, st) ==
    IF j > Len(dirs) THEN st
    ELSE LET subdir == dirs[j]
             inside == prefix \o <<"/", subdir>>
             visit == \/ pattern = AllPattern
                      \/ ReMatch(subdirs_pattern[1], <<subdir>>)
             rest == IF pattern = AllPattern THEN pattern
                     ELSE Join(Tail(subdirs_pattern))
             listing == list(inside \o <<"/">>)
             sub == match(class, <<rest>>, listing.files, listing.dirs,
                          inside, TRUE,
                          [st EXCEPT !.listed = Append(@, inside \o <<"/">>)])
         IN MatchDirs(class, pattern, subdirs_pattern, dirs, j + 1, prefix,
                      IF visit THEN [files |-> sub.files,
                                     listed |-> sub.listed,
                                     raised |-> sub.raised]
                               ELSE st)

\* The loop `for pattern in patterns`, from pattern p on. It ends at the
\* end of the list, or at the `return` of DownloadInterface.match, line
\* 380, once the wildcard took the files of the listing.
MatchPatterns(class, pats, p, files, dirs, prefix, st) ==
    IF p > Len(pats)
    THEN [files |-> st.files, listed |-> st.listed, raised |-> st.raised,
          file_list |-> files, returned |-> FALSE]
    ELSE LET pattern == pats[p]
             subdirs_pattern == IF pattern[1] = "^" THEN Tail(pattern)
                                                     ELSE pattern
         IN IF Len(pattern) > 1
            THEN IF pattern = AllPattern
                 THEN LET sel == SelectFiles(class, files, prefix, ".*")
                          took == [st EXCEPT !.files = @ \o sel.out]
                      IN IF class = "FTPDownload"
                         THEN MatchPatterns(class, pats, p + 1,
                                  sel.file_list, dirs, prefix,
                                  MatchDirs(class, pattern, subdirs_pattern,
                                            dirs, 1, prefix, took))
                         ELSE [files |-> took.files, listed |-> took.listed,
                               raised |-> took.raised,
                               file_list |-> sel.file_list,
                               returned |-> TRUE]
                 ELSE MatchPatterns(class, pats, p + 1, files, dirs, prefix,
                          MatchDirs(class, pattern, subdirs_pattern, dirs, 1,
                                    prefix, st))
            ELSE LET sel == SelectFiles(class, files, prefix, pattern[1])
                 IN MatchPatterns(class, pats, p + 1, sel.file_list, dirs,
                                  prefix, [st EXCEPT !.files = @ \o sel.out])

\* match(patterns, file_list, dir_list, prefix, submatch) of
\* DownloadInterface and of FTPDownload: files_to_download is emptied by a
\* top-level call, the patterns are applied, and a top-level call that
\* reaches the end with files_to_download empty raises; an exception of a
\* recursive call goes up to the caller.
match(class, pats, files, dirs, prefix, submatch, st) ==
    LET r == MatchPatterns(class, pats, 1, files, dirs, prefix,
                           IF submatch THEN st
                                       ELSE [st EXCEPT !.files = <<>>])
    IN [files |-> r.files, listed |-> r.listed, file_list |-> r.file_list,
        raised |-> \/ r.raised
                   \/ ~r.returned /\ ~submatch /\ r.files = <<>>]

\* A downloader of one of the classes in front of a remote tree; the
\* caller has listed the top directory and holds its file and directory
\* lists.
InitMatch ==
    /\ InitService(ServiceWorkers)
    /\ cancel = FALSE
    /\ NoClient
    /\ NoThreads
    /\ NoDownload
    /\ NoCopy
    /\ dpc = "idle"
    /\ dl_files_to_download = <<>>
    /\ downloader_class \in Classes
    /\ remote_tree \in Trees
    /\ patterns \in UNION {[1..n -> Patterns] : n \in 0..MaxPatterns}
    /\ file_list = list(<<>>).files
    /\ dir_list = list(<<>>).dirs
    /\ list_calls = <<>>
    /\ match_raised = FALSE
    /\ remote_answer = "ok"
    /\ list_result = "returned"
    /\ self_save_as = <<"None">>

\* match(patterns, file_list, dir_list) is called, a first and a second
\* time, with the same list objects.
match_call ==
    /\ dpc \in {"idle", "matched"}
    /\ dpc' = IF dpc = "idle" THEN "matched" ELSE "matched_again"
    /\ LET r == match(downloader_class, patterns, file_list, dir_list, <<>>,
                      FALSE,
                      [files |-> dl_files_to_download, listed |-> <<>>,
                       raised |-> FALSE])
       IN /\ dl_files_to_download' = r.files
          /\ file_list' = r.file_list
          /\ list_calls' = r.listed
          /\ match_raised' = r.raised
    /\ UNCHANGED <<serviceVars, cancel, clientVars, threadVars, downloadVars,
                   copyVars, downloader_class, remote_tree, patterns,
                   dir_list, remote_answer, list_result, self_save_as>>

NextMatch == match_call

SpecMatch == InitMatch /\ [][NextMatch]_vars

\* ------------------------------- download(): creation of the directory
\* The directories a file can be saved under (local_dir + '/' +
\* dirname(save_as)).
FileDirs == {"/local", "/local/a", "/local/b"}

\* A directory with the directories above it.
WithParents(d) == IF d = "/local" THEN {d} ELSE {d, "/local"}

\* os.path.split(name)[0], the `head` of os.makedirs.
Dirname(d) == IF d = "/local" THEN "/" ELSE "/local"

\* os.path.exists(d): the root always exists.
PathExists(d, disk) == d = "/" \/ d \in disk

\* The local client has put one message per thread in the queue, started
\* the threads and waits at the join (_download_pool_files, lines 167-178);
\* each thread took its message and is inside download() for one file, at
\* lines 538-541, no task_done() being called yet; some of the directories
\* may exist already.
InitMkdir ==
    /\ InitService(ServiceWorkers)
    /\ cancel = FALSE
    /\ cpc = "join"
    /\ rate_limiting = 0
    /\ redis_client = FALSE
    /\ files_to_download = MaxThreads
    /\ download_pool = [t \in Threads |-> Operation(t)]
    /\ nb_submitted = 0
    /\ progress = 0
    /\ error = 0
    /\ max_submit = 0
    /\ download_error = FALSE
    /\ last_progress = 0
    /\ progress_log = <<>>
    /\ NoApi
    /\ pool_size = MaxThreads
    /\ message_queue = <<>>
    /\ unfinished_tasks = MaxThreads
    /\ thpc = [t \in Threads |-> "local_download"]
    /\ thmsg = [t \in Threads |-> Operation(t)]
    /\ therror = [t \in Threads |-> 0]
    /\ calls = [j \in 1..MaxFiles |-> 0]
    /\ failed = {}
    /\ file_dir \in [Threads -> FileDirs]
    /\ mkpc = [t \in Threads |-> "exists"]
    /\ disk_dirs \in {ds \in SUBSET FileDirs :
                         \A d \in ds : WithParents(d) \subseteq ds}
    /\ NoDownloader

\* One step of a thread inside download().
MkdirOnly ==
    UNCHANGED <<serviceVars, cancel, clientVars, pool_size, message_queue,
                unfinished_tasks, thpc, thmsg, therror, calls, failed,
                file_dir, downloaderVars>>

\* self.mkdir_lock is a _FakeLock (interface.py line 153), whose acquire
\* does nothing, and download() does not call it: a thread never waits.
LockFree(t) == TRUE

\* download(), line 540: os.path.exists(file_dir).
path_exists(t) ==
    /\ mkpc[t] = "exists"
    /\ LockFree(t)
    /\ mkpc' = [mkpc EXCEPT ![t] = IF file_dir[t] \in disk_dirs
                                      THEN "transfer" ELSE "makedirs"]
    /\ UNCHANGED disk_dirs
    /\ MkdirOnly

\* download(), line 541: os.makedirs(file_dir) is entered; it first tests
\* `not path.exists(head)` for the directory above file_dir, and creates
\* that one first when it is missing.
makedirs(t) ==
    /\ mkpc[t] = "makedirs"
    /\ mkpc' = [mkpc EXCEPT ![t] =
                   IF PathExists(Dirname(file_dir[t]), disk_dirs)
                     THEN "mkdir" ELSE "mkdir_head"]
    /\ UNCHANGED disk_dirs
    /\ MkdirOnly

\* Inside os.makedirs: makedirs(head), whose os.mkdir(head) creates the
\* directory above file_dir; the FileExistsError of a directory another
\* thread has created meanwhile is passed over.
mkdir_head(t) ==
    /\ mkpc[t] = "mkdir_head"
    /\ mkpc' = [mkpc EXCEPT ![t] = "mkdir"]
    /\ disk_dirs' = disk_dirs \cup {Dirname(file_dir[t])}
    /\ MkdirOnly

\* Inside os.makedirs: os.mkdir(file_dir) creates the directory, or raises
\* FileExistsError when it exists (no exist_ok), which ends download().
mkdir(t) ==
    /\ mkpc[t] = "mkdir"
    /\ IF file_dir[t] \in disk_dirs
         THEN /\ mkpc' = [mkpc EXCEPT ![t] = "raised"]
              /\ UNCHANGED disk_dirs
         ELSE /\ mkpc' = [mkpc EXCEPT ![t] = "transfer"]
              /\ disk_dirs' = disk_dirs \cup {file_dir[t]}
    /\ MkdirOnly

\* download(), lines 543-560: the file is transferred into file_dir.
transfer(t) ==
    /\ mkpc[t] = "transfer"
    /\ mkpc' = [mkpc EXCEPT ![t] = "returned"]
    /\ UNCHANGED disk_dirs
    /\ MkdirOnly

NextMkdir ==
    \/ \E t \in Threads : path_exists(t)
    \/ \E t \in Threads : makedirs(t)
    \/ \E t \in Threads : mkdir_head(t)
    \/ \E t \in Threads : mkdir(t)
    \/ \E t \in Threads : transfer(t)

SpecMkdir == InitMkdir /\ [][NextMkdir]_vars

\* ------------------------------------------------ list (remote listing)
\* How the remote answers the listing request: with the listing ("ok"),
\* not at all (unreachable: curl's perform raises, rsync exits with a
\* code other than 0), or with a response code outside the protocol's
\* ERRCODE_OK ("error_code"; for rsync an exit code other than 0).
RemoteAnswers == {"ok", "unreachable", "error_code"}

\* list(directory) of the three listing downloaders. CurlDownload.list
\* raises when perform raises or the response code is not in ERRCODE_OK.
\* FTPDownload.list logs the exception of perform, never reads the response
\* code and parses the (empty) output. RSYNCDownload.list returns its
\* empty lists when the exit code is not 0.
ListCall(class, answer, directory) ==
    IF answer = "ok"
    THEN [result |-> "returned", files |-> list(directory).files,
          dirs |-> list(directory).dirs]
    ELSE IF class = "CurlDownload"
         THEN [result |-> "raised", files |-> <<>>, dirs |-> <<>>]
         ELSE [result |-> "returned", files |-> <<>>, dirs |-> <<>>]

InitListing ==
    /\ InitService(ServiceWorkers)
    /\ cancel = FALSE
    /\ NoClient
    /\ NoThreads
    /\ NoDownload
    /\ NoCopy
    /\ dpc = "idle"
    /\ dl_files_to_download = <<>>
    /\ downloader_class \in Classes
    /\ remote_tree \in Trees
    /\ patterns = <<>>
    /\ file_list = <<>>
    /\ dir_list = <<>>
    /\ list_calls = <<>>
    /\ match_raised = FALSE
    /\ remote_answer \in RemoteAnswers
    /\ list_result = "none"
    /\ self_save_as = <<"None">>

\* (file_list, dir_list) = downloader.list(), as _list calls it (line 311).
list_call ==
    /\ dpc = "idle"
    /\ dpc' = "listed"
    /\ LET r == ListCall(downloader_class, remote_answer, <<>>)
       IN /\ list_result' = r.result
          /\ file_list' = r.files
          /\ dir_list' = r.dirs
    /\ list_calls' = <<<<>>>>
    /\ UNCHANGED <<serviceVars, cancel, clientVars, threadVars, downloadVars,
                   copyVars, dl_files_to_download, downloader_class,
                   remote_tree, patterns, match_raised, remote_answer,
                   self_save_as>>

NextListing == list_call

SpecListing == InitListing /\ [][NextListing]_vars

\* ------------------------------------------ save_as of the files set
\* Largest number of files given to set_files_to_download.
MaxSetFiles == 3

\* None, for save_as.
NoSaveAs == <<"None">>

\* The file names given: plain ones, one with a repeated '/', one that
\* ends with '/'.
GivenNames == {<<"a">>, <<"b">>, <<"d", "/", "/", "a">>, <<"a", "/">>}

\* '', the save_as of a protobuf file message whose save_as was not set.
EmptySaveAs == <<>>

\* The file dicts given without an explicit save_as: _get_handler builds
\* them with 'save_as': remote_file.save_as, which is '' (lines 196-204);
\* a caller of set_files_to_download that writes the dicts itself leaves
\* the key out or gives None.
GivenFiles == [name : GivenNames, save_as : {NoSaveAs, EmptySaveAs}]

\* The downloaders: one that uses DownloadInterface.set_files_to_download
\* and the two direct ones.
SaveAsClasses == {"CurlDownload", "DirectFTPDownload", "DirectHttpDownload"}

Direct(class) == class \in {"DirectFTPDownload", "DirectHttpDownload"}

\* `file_to_download[:-1]` when the name ends with '/'.
StripSlash(name) ==
    IF name # <<>> /\ name[Len(name)] = "/"
    THEN SubSeq(name, 1, Len(name) - 1) ELSE name

\* _append_file_to_download, lines 327-333: `if 'save_as' not in rfile or
\* rfile['save_as'] is None` save_as is set to the name ('' is kept), then
\* the repeated '/' are removed from the name.
AppendedFile(rfile) ==
    [name |-> Collapse(rfile.name),
     save_as |-> IF rfile.save_as = NoSaveAs THEN rfile.name
                                             ELSE rfile.save_as]

\* DirectFTPDownload.set_files_to_download, lines 38-60: a new dict per
\* name, without the key save_as (get_handler, lines 147-152, gives the
\* direct downloaders the names only).
DirectFile(name) == [name |-> StripSlash(name), save_as |-> NoSaveAs]

\* set_files_to_download(files) of the class.
SetFilesToDownload(class, files) ==
    [i \in DOMAIN files |->
        IF Direct(class) THEN DirectFile(files[i].name)
                         ELSE AppendedFile(files[i])]

\* self.save_as after the loop of list(): the first name met when it was
\* None.
SaveAsAfterList(save_as, files) ==
    IF save_as = NoSaveAs /\ files # <<>> THEN files[1].name ELSE save_as

\* DirectFTPDownload.list, lines 62-70 (DirectHttpDownload.list, lines
\* 205-213, has the same two statements): `if self.save_as is None:
\* self.save_as = rfile['name']`, then `rfile['save_as'] = self.save_as`.
DirectList(save_as, files) ==
    [i \in DOMAIN files |->
        [files[i] EXCEPT !.save_as = SaveAsAfterList(save_as, files)]]

\* The pattern lists given to the match of a direct downloader: none, a
\* name, anything.
DirectPatterns == {<<>>, <<<<"b">>>>, <<<<".*">>>>}

DirectMatchByPattern(pats, files) ==
    SelectSeq(files, LAMBDA f : \E k \in DOMAIN pats :
                                    ReMatch(pats[k][1], f.name))

\* DirectFTPDownload.match, lines 72-78: self.files_to_download =
\* file_list; the patterns are not read.
DirectMatch(pats, files) == files

InitSaveAs ==
    /\ InitService(ServiceWorkers)
    /\ cancel = FALSE
    /\ NoClient
    /\ NoThreads
    /\ NoDownload
    /\ NoCopy
    /\ dpc = "idle"
    /\ dl_files_to_download = <<>>
    /\ downloader_class \in SaveAsClasses
    /\ remote_tree = <<>>
    /\ patterns \in DirectPatterns
    /\ file_list = <<>>
    /\ dir_list = <<>>
    /\ list_calls = <<>>
    /\ match_raised = FALSE
    /\ remote_answer = "none"
    /\ list_result = "none"
    /\ self_save_as = NoSaveAs

SaveAsOnly ==
    UNCHANGED <<serviceVars, cancel, clientVars, threadVars, downloadVars,
                copyVars, downloader_class, remote_tree, patterns,
                list_calls, remote_answer>>

\* downloader.set_files_to_download(remote_files), no save_as being given:
\* in get_handler (line 186) no file's save_as is truthy (lines 143-145),
\* so that set_save_as (line 175) is not called.
set_files_call ==
    /\ dpc = "idle"
    /\ dpc' = "set"
    /\ \E files \in UNION {[1..n -> GivenFiles] : n \in 0..MaxSetFiles} :
         dl_files_to_download' = SetFilesToDownload(downloader_class, files)
    /\ UNCHANGED <<self_save_as, list_result, file_list, dir_list,
                   match_raised>>
    /\ SaveAsOnly

\* (file_list, dir_list) = downloader.list() of a direct downloader: it
\* returns (self.files_to_download, []), lines 70 and 283.
direct_list ==
    /\ dpc = "set"
    /\ Direct(downloader_class)
    /\ dpc' = "listed"
    /\ self_save_as' = SaveAsAfterList(self_save_as, dl_files_to_download)
    /\ dl_files_to_download' = DirectList(self_save_as, dl_files_to_download)
    /\ file_list' = dl_files_to_download'
    /\ dir_list' = <<>>
    /\ list_result' = "returned"
    /\ UNCHANGED match_raised
    /\ SaveAsOnly

\* downloader.match(patterns, file_list, dir_list) of a direct downloader,
\* with the lists its list() returned.
direct_match ==
    /\ dpc = "listed"
    /\ Direct(downloader_class)
    /\ dpc' = "matched"
    /\ dl_files_to_download' = DirectMatch(patterns, file_list)
    /\ match_raised' = FALSE
    /\ UNCHANGED <<self_save_as, list_result, file_list, dir_list>>
    /\ SaveAsOnly

NextSaveAs ==
    \/ set_files_call
    \/ direct_list
    \/ direct_match

SpecSaveAs == InitSaveAs /\ [][NextSaveAs]_vars

\* --------------------------------------------- download_errors (error:info)
\* Number of download_errors calls made in one behaviour.
MaxErrorCalls == 2

\* The session was created, is alive and holds no message; the consumer
\* (with its download callback, as the consumer script starts it) is idle
\* and no download_errors call is running.
InitErrors ==
    /\ ServiceAt(ServiceWorkers, TRUE)
    /\ cancel = FALSE
    /\ ClientIdle
    /\ NoThreads
    /\ NoDownloader
    /\ epc = "idle"
    /\ errors = <<>>
    /\ recorded = <<>>
    /\ returned = <<>>
    /\ NoOptions
    /\ self_download_callback = "on_download"

ErrorsOnly ==
    UNCHANGED <<keys, vError, vProgress, vFiles, created, queue, published,
                delivered, acks, wpc, wmsg, wtag, wres, wlog, cleanpc,
                cancel, cpc, rate_limiting, redis_client, files_to_download,
                download_pool, nb_submitted, progress, error, max_submit,
                download_error, logVars, optionVars, self_download_callback,
                threadVars, downloaderVars>>

\* download_errors, line 260: errors = [].
download_errors_call ==
    /\ epc = "idle"
    /\ Len(returned) < MaxErrorCalls
    /\ epc' = "rpop"
    /\ errors' = <<>>
    /\ UNCHANGED <<errorInfo, recorded, returned>>
    /\ ErrorsOnly

\* Lines 261-265: one RPOP of error:info (the right end of the list); a
\* truthy value is appended to errors and the loop goes on, anything else
\* ends the loop and errors is returned.
download_errors_rpop ==
    /\ epc = "rpop"
    /\ IF errorInfo # <<>> /\ Truthy(errorInfo[Len(errorInfo)])
         THEN /\ errors' = Append(errors, errorInfo[Len(errorInfo)])
              /\ UNCHANGED <<epc, returned>>
         ELSE /\ epc' = "idle"
              /\ returned' = Append(returned, errors)
              /\ errors' = <<>>
    /\ errorInfo' = IF errorInfo = <<>> THEN errorInfo
                    ELSE SubSeq(errorInfo, 1, Len(errorInfo) - 1)
    /\ UNCHANGED recorded
    /\ ErrorsOnly

\* The producer publishes LIST and DOWNLOAD jobs for the session, the
\* consumer handles them (a failing one records its error: SET or INCR of
\* the error counter, then LPUSH to error:info), and download_errors is
\* called at any moment.
NextErrors ==
    \/ \E m \in {ListMsg, DownloadMsg} : Publish(m)
    \/ ConsumerNext
    \/ ListNext
    \/ DownloadNext
    \/ download_errors_call
    \/ download_errors_rpop

SpecErrors == InitErrors /\ [][NextErrors]_vars

\* ------------------------------------------- set_options and the retryer
\* Number of set_options calls made on one downloader.
MaxOptionCalls == 2

\* The whitelists given to simple_eval for a stop condition and for a wait
\* policy: functions (constructors), names and operators.
Functions(lang) ==
    IF lang = "stop"
      THEN {"stop_when_event_set", "stop_after_attempt", "stop_after_delay",
            "stop_any", "stop_all"}
      ELSE {"wait_fixed", "wait_random", "wait_incrementing",
            "wait_exponential", "wait_random_exponential", "wait_combine",
            "wait_chain"}

Names(lang) == IF lang = "stop" THEN {"stop_never"} ELSE {"wait_none"}

Operators(lang) == IF lang = "stop" THEN {"|", "&"} ELSE {"+"}

\* The class of the object an operator builds: stop_base.__or__ returns
\* stop_any(self, other), __and__ stop_all(self, other), and
\* wait_base.__add__ wait_combine(self, other).
OperatorClass(op) ==
    IF op = "|" THEN "stop_any"
    ELSE IF op = "&" THEN "stop_all"
    ELSE "wait_combine"

\* The numbers of positional arguments a constructor takes.
Arity(name) ==
    IF name \in {"stop_when_event_set", "stop_after_attempt",
                 "stop_after_delay", "wait_fixed"} THEN {1}
    ELSE IF name = "wait_random" THEN 0..2
    ELSE IF name = "wait_incrementing" THEN 0..3
    ELSE IF name \in {"wait_exponential", "wait_random_exponential"}
      THEN 0..4
    ELSE Nat

\* The values simple_eval yields: a number, a class (a constructor that
\* was named but not called), an object of a class with the arguments it
\* was built from, or an exception.
Number(n) == Expr("num", "", n, <<>>)

Class(name) == Expr("class", name, 0, <<>>)

Object(name, args) == Expr("obj", name, 0, args)

Raised == Expr("raise", "", 0, <<>>)

AnyRaised(values) == \E i \in DOMAIN values : values[i] = Raised

\* simple_eval(expression, functions, operators, names).
RECURSIVE simple_eval(_, _)
simple_eval(e, lang) ==
    IF e.kind = "default" THEN Object("default", <<>>)
    ELSE IF e.kind = "num" THEN Number(e.n)
    ELSE IF e.kind = "name"
      THEN IF e.name \in Names(lang) THEN Object(e.name, <<>>)
           ELSE IF e.name \in Functions(lang) THEN Class(e.name)
           ELSE Raised
    ELSE LET values == [i \in DOMAIN e.args |-> simple_eval(e.args[i], lang)]
         IN  IF e.kind = "call"
               THEN IF e.name \notin Functions(lang) THEN Raised
                    ELSE IF AnyRaised(values) THEN Raised
                    ELSE IF Len(values) \notin Arity(e.name) THEN Raised
                    ELSE Object(e.name, values)
               ELSE IF e.name \notin Operators(lang) THEN Raised
                    ELSE IF AnyRaised(values) THEN Raised
                    ELSE Object(OperatorClass(e.name), values)

\* s(make_retry_state(0, 0)) for a stop condition: attempt_number and
\* seconds_since_start are 0. any() and all() stop at the first element
\* that decides, so the elements after it are not called. An element that
\* is a class (a constructor named without being called) is called like
\* the others: x(retry_state) builds an instance of it, which is truthy.
\* A number is not callable.
RECURSIVE StopCall(_)
RECURSIVE StopFold(_, _, _)
StopFold(values, i, deciding) ==
    IF i > Len(values)
      THEN (IF deciding = "true" THEN "false" ELSE "true")
      ELSE LET r == StopCall(values[i])
           IN  IF r = "raise" \/ r = deciding THEN r
               ELSE StopFold(values, i + 1, deciding)

StopCall(v) ==
    IF v.kind = "class" THEN "true"
    ELSE IF v.kind # "obj" THEN "raise"
    ELSE IF v.name \in {"default", "stop_never"} THEN "false"
    ELSE IF v.name \in {"stop_after_attempt", "stop_after_delay"}
      THEN IF v.args[1].kind # "num" THEN "raise"
           ELSE IF 0 >= v.args[1].n THEN "true" ELSE "false"
    ELSE IF v.name = "stop_any" THEN StopFold(v.args, 1, "true")
    ELSE IF v.name = "stop_all" THEN StopFold(v.args, 1, "false")
    ELSE "raise"

\* w(make_retry_state(0, 0)) for a wait policy: wait_combine sums the
\* waits of all its strategies, wait_chain asks the strategy of the
\* attempt (the first one here).
RECURSIVE WaitCall(_)
WaitCall(v) ==
    IF v.kind # "obj" THEN "raise"
    ELSE IF v.name \in {"default", "wait_none", "wait_fixed"} THEN "wait"
    ELSE IF v.name = "wait_combine"
      THEN IF \E i \in DOMAIN v.args : WaitCall(v.args[i]) = "raise"
             THEN "raise" ELSE "wait"
    ELSE IF v.name = "wait_chain"
      THEN IF v.args = <<>> THEN "raise" ELSE WaitCall(v.args[1])
    ELSE IF \A i \in DOMAIN v.args : v.args[i].kind = "num" THEN "wait"
    ELSE "raise"

\* _set_retryer, one of its two halves: the string is evaluated, the value
\* must be an instance of stop_base (wait_base) and calling a copy of it
\* must not raise; everything else ends in ValueError.
Parses(e, lang) ==
    LET v == simple_eval(e, lang)
    IN  /\ v.kind = "obj"
        /\ (IF lang = "stop" THEN StopCall(v) ELSE WaitCall(v)) # "raise"

\* options.get(key, BiomajConfig.DEFAULTS[key]).
OptionOrDefault(e) == IF e = NoExpr THEN DefaultExpr ELSE e

\* `if "stop_condition" or "wait_policy" in options` (line 244): the
\* non-empty string "stop_condition" is the left operand of `or`.
RetryerRebuilt(given) == TRUE

Call(name, args) == Expr("call", name, 0, args)

Op(name, left, right) == Expr("op", name, 0, <<left, right>>)

Id(name) == Expr("name", name, 0, <<>>)

\* The stop conditions given as option: those of test_retry_parsing, with
\* the constructor's name spelled right, and some more.
StopExprs ==
    { Id("stop_never"),
      Call("stop_after_attempt", <<Number(5)>>),
      Op("|", Id("stop_never"), Call("stop_after_attempt", <<Number(5)>>)),
      Call("stop_any", <<Call("stop_after_attempt", <<Number(5)>>),
                         Call("stop_after_delay", <<Number(10)>>)>>),
      Call("stop_all", <<Call("stop_after_attempt", <<Number(5)>>),
                         Call("stop_after_delay", <<Number(10)>>)>>),
      Id("stop_after_attempts"),
      Id("stop_after_attempt"),
      Call("stop_after_attempt", <<>>),
      Op("&", Number(1), Number(1)),
      Op("&", Call("stop_after_attempt", <<Number(5)>>), Number(1)),
      Op("|", Call("stop_after_attempt", <<Number(5)>>), Number(1)),
      Op("|", Id("stop_after_attempt"), Id("stop_never")),
      Op("+", Id("stop_never"), Id("stop_never")) }

\* The wait policies given as option.
WaitExprs ==
    { Id("wait_none"),
      Call("wait_fixed", <<Number(3)>>),
      Op("+", Id("wait_none"), Call("wait_random", <<Number(1), Number(2)>>)),
      Call("wait_combine", <<Call("wait_fixed", <<Number(3)>>),
                             Call("wait_random", <<Number(1), Number(2)>>)>>),
      Call("wait_chain", <<Call("wait_fixed", <<Number(3)>>),
                           Call("wait_random", <<Number(1), Number(2)>>)>>),
      Id("wait_random"),
      Id("I love python"),
      Call("wait_fixed", <<>>),
      Op("+", Call("wait_random", <<Number(5)>>), Number(3)),
      Call("wait_chain", <<Call("wait_fixed", <<Number(3)>>), Number(3)>>) }

OptionDicts ==
    [skip : {"absent", "true", "false"},
     stop : StopExprs \cup {NoExpr},
     wait : WaitExprs \cup {NoExpr}]

\* A downloader just constructed: no options, the default retryer.
InitOptions ==
    /\ InitService(ServiceWorkers)
    /\ cancel = FALSE
    /\ ClientIdle
    /\ NoErrors
    /\ NoThreads
    /\ NoDownloader
    /\ NoOptions
    /\ NoCallback

\* DownloadInterface.set_options, lines 233-247.
set_options ==
    /\ opt_calls < MaxOptionCalls
    /\ opt_calls' = opt_calls + 1
    /\ \E given \in OptionDicts :
         LET stop_condition == OptionOrDefault(given.stop)
             wait_policy == OptionOrDefault(given.wait)
         IN  /\ options' = given
             /\ skip_check_uncompress' =
                    IF given.skip = "absent" THEN skip_check_uncompress
                    ELSE given.skip = "true"
             /\ IF ~RetryerRebuilt(given)
                  THEN /\ opt_result' = "set"
                       /\ UNCHANGED retryer
                  ELSE IF Parses(stop_condition, "stop")
                          /\ Parses(wait_policy, "wait")
                  THEN /\ opt_result' = "set"
                       /\ retryer' = [stop |-> stop_condition,
                                      wait |-> wait_policy]
                  ELSE /\ opt_result' = "ValueError"
                       /\ UNCHANGED retryer
    /\ UNCHANGED <<serviceVars, cancel, cpc, rate_limiting, redis_client,
                   files_to_download, download_pool, nb_submitted, progress,
                   error, max_submit, download_error, logVars, errorsVars,
                   self_download_callback, threadVars, dpc, dl_files_to_download, stop_max, d_index,
                   attempt_number, results, d_calls, last_attempt, local_files,
                   copyVars,
                   matchVars>>

NextOptions == set_options

SpecOptions == InitOptions /\ [][NextOptions]_vars

\* ==================================================================
\* Properties
\* ==================================================================

\* The steps worker w can take while it handles a delivery.
HandlerStep(w) ==
    \/ list_session(w) \/ list_handler(w) \/ list_set_error(w)
    \/ list_push_error(w) \/ list_files(w) \/ list_progress(w)
    \/ download_session(w) \/ local_download(w) \/ download_error_session(w)
    \/ download_incr_error(w) \/ download_push_error(w)
    \/ download_progress_session(w) \/ download_incr_progress(w)
    \/ download_callback(w) \/ basic_ack(w)

\* Delivery tag t is being handled by some worker.
InFlight(t) == \E w \in DOMAIN wpc : wpc[w] # "idle" /\ wtag[w] = t

\* The session key is present and the delivery of worker w stands at the
\* basic_ack: the session was created before the message was published and
\* is deleted at most once, so it was alive during the whole handling.
AtAckAlive(w) == wpc[w] = "ack" /\ HasKey("session")

\* C1: every delivery received by callback_messages gets exactly one
\* basic_ack, whatever the operation type, whether or not decoding, the
\* handler or the download callback raises; the ack is sent only once the
\* handler has returned or raised (no ack while the delivery is handled),
\* and the handling never stops short of the ack.
C1_AckExactlyOnce ==
    /\ \A t \in DOMAIN acks :
         acks[t] = IF t <= delivered /\ ~InFlight(t) THEN 1 ELSE 0
    /\ \A w \in DOMAIN wpc : wpc[w] # "idle" => ENABLED HandlerStep(w)

\* C1 witness: delivery 1 was acked and a later delivery whose handling
\* raised stands at its basic_ack.
C1_Witness ==
    /\ acks[1] = 1
    /\ \E w \in DOMAIN wpc : wpc[w] = "ack" /\ wlog[w].raised

\* C2: a LIST or DOWNLOAD job handled to its ack while the session is alive
\* had the progress counter incremented exactly once.
C2_ProgressExactlyOnce ==
    \A w \in DOMAIN wpc :
        (AtAckAlive(w) /\ wmsg[w].decodes /\ wmsg[w].type \in {0, 1})
            => wlog[w].progress = 1

\* C3: when the first GET of the session key by a LIST or DOWNLOAD handler
\* finds no session, no downloader is built, no key of the session is
\* written for that delivery, and the worker is on its way to the basic_ack.
C3_StaleJobDropped ==
    \A w \in DOMAIN wpc :
        wlog[w].session = "absent" =>
            /\ wmsg[w].type \in {0, 1}
            /\ wlog[w].handler = 0
            /\ wlog[w].progress = 0
            /\ wlog[w].error = 0
            /\ wlog[w].errinfo = 0
            /\ wlog[w].files = 0
            /\ wpc[w] \in {"callback", "ack"}
            /\ ENABLED HandlerStep(w)

\* C3 witness: a DOWNLOAD job found its session absent and stands at the
\* basic_ack, after the download callback.
C3_Witness ==
    \E w \in DOMAIN wpc :
        /\ wlog[w].session = "absent"
        /\ wmsg[w].type = 1
        /\ wlog[w].callback = 1
        /\ wpc[w] = "ack"

\* C4: a DOWNLOAD job whose handling raised, the session being alive, had
\* error incremented once, one message pushed to error:info and progress
\* incremented; a LIST job whose handling raised leaves error > 0, one more
\* message in error:info and progress incremented.
C4_FailureRecorded ==
    \A w \in DOMAIN wpc :
        (AtAckAlive(w) /\ wres[w] \in {"raise", "serialize_raise"}) =>
            /\ HasKey("error") /\ vError > 0
            /\ wlog[w].error = 1
            /\ wlog[w].errinfo = 1
            /\ wlog[w].progress = 1

\* The client is inside wait_for_download.
InWait ==
    cpc \in {"wait_cancel", "cancel_delete", "status_error",
             "status_progress", "publish", "errors_over", "errors_loop"}

\* C5: in remote mode wait_for_download returns true if and only if the
\* session's error counter is > 0 when it returns (before the session is
\* cleaned).
C5_ReturnsTrueIffError ==
    (cpc = "returned" /\ cleanpc = "idle") =>
        (download_error <=> (HasKey("error") /\ vError > 0))

\* C6: with rate_limiting = R > 0, at every point of wait_for_download the
\* number of jobs published and not yet counted in progress is at most R,
\* and every published job was counted in nb_submitted.
C6_InFlightBounded ==
    (rate_limiting > 0 /\ InWait) =>
        /\ published - vProgress <= rate_limiting
        /\ published = nb_submitted
        /\ published + Len(download_pool) = files_to_download

\* C6 witness: under a rate limit of 1, one job is published, none has
\* completed (the status read reported progress -1), the pool still holds
\* a job and the publishing loop was sized to 0 iterations.
C6_Witness ==
    /\ rate_limiting = 1
    /\ cpc = "publish"
    /\ nb_submitted = 1
    /\ progress = -1
    /\ download_pool # <<>>
    /\ max_submit = 0

\* C7: with a redis client, each polling iteration starts by reading the
\* cancel flag; when it is set the client deletes it and raises without
\* polling the status or publishing; at the raise the flag is absent, and
\* from then on nothing is published and the pool is left as it was.
C7_CancelConsumed ==
    [][/\ (cpc = "wait_cancel" /\ cpc' # cpc) =>
            (IF redis_client /\ cancel THEN cpc' = "cancel_delete"
                                        ELSE cpc' = "status_error")
       /\ (cpc' = "status_error" /\ cpc # cpc') => cpc = "wait_cancel"
       /\ (cpc' = "publish" /\ cpc # cpc') => cpc = "status_progress"
       /\ (cpc' = "status_progress" /\ cpc # cpc') => cpc = "status_error"
       /\ (cpc = "cancel_delete" /\ cpc' # cpc) =>
            (cpc' = "canceled" /\ ~cancel' /\ published' = published
             /\ download_pool' = download_pool)
       /\ (cpc' = "canceled" /\ cpc # cpc') => cpc = "cancel_delete"
       /\ cpc = "canceled" =>
            (cpc' = "canceled" /\ ~cancel' /\ published' = published
             /\ download_pool' = download_pool)
      ]_vars

\* C7 witness: the wait was cancelled under a rate limit after one job was
\* published, with a job still in the pool.
C7_Witness ==
    /\ cpc = "canceled"
    /\ redis_client
    /\ ~cancel
    /\ published = 1
    /\ download_pool # <<>>

\* C8: once clean has returned the store holds none of the session's keys.
C8_CleanedForGood ==
    cleanpc = "done" => keys = {} /\ errorInfo = <<>>

\* C9: while the session is alive neither progress nor error decreases.
C9_CountersMonotonic ==
    [][(HasKey("session") /\ HasKey("session")') =>
          (vProgress' >= vProgress /\ vError' >= vError)]_vars

\* With at least one file submitted the wait does return and the pool is
\* emptied (checked under SpecClientLive); the case left is the wait over
\* no file at all.
WaitReturnsWhenFilesSubmitted ==
    [](cpc = "wait_cancel" /\ files_to_download > 0 =>
         (<>(cpc = "returned") /\ <>(download_pool = <<>>)))

\* C10: with no cancel request, the session alive and every published job
\* handled, wait_for_download eventually returns, and under a rate limit
\* the pending pool is eventually emptied.
C10_WaitReturns ==
    /\ <>(cpc = "returned")
    /\ <>(download_pool = <<>>)

\* C11: in local mode wait_for_download starts pool_size threads; no pooled
\* job is ever passed to local_download twice; when it returns, pool_size
\* threads were started, every pooled job was passed to local_download
\* exactly once, and the value returned is true if and only if
\* local_download raised or returned None for at least one job.
C11_LocalWait ==
    /\ \A j \in DOMAIN calls : calls[j] <= 1
    /\ cpc = "returned" =>
         /\ Started = pool_size
         /\ \A j \in DOMAIN calls :
              calls[j] = IF j <= files_to_download THEN 1 ELSE 0
         /\ download_error <=> (failed # {})

\* C11 witness: the wait returned true after two threads each ran a job,
\* one of which failed and one of which did not.
C11_Witness ==
    /\ cpc = "returned"
    /\ download_error
    /\ pool_size = 2
    /\ files_to_download = 2
    /\ Cardinality(failed) = 1
    /\ therror[1] # therror[2]

\* The download() call is under way or has ended (returned or raised).
InDownload == dpc \in {"file", "attempt", "outcome", "raised", "returned"}

\* k - 1 failed attempts followed by a successful one, with k <= n.
SucceededAt(res, n) ==
    /\ Len(res) \in 1..n
    /\ \A k \in 1..Len(res) : res[k] = (k < Len(res))

\* The files of the list placed before position i.
Before(i) == {j \in 1..Len(dl_files_to_download) : j < i}

\* C12: under stop_after_attempt(n), n >= 1, _download is called again for
\* a file only while every attempt so far returned error and fewer than n
\* were made; download() raises exactly when n attempts were made and all
\* failed; a file got through exactly when attempt k <= n was the first to
\* succeed, after exactly k attempts; the retryer's attempt number is the
\* number of attempts made for the current file in the current download()
\* call (it starts again at 1 in every call).
C12_RetryAttempts ==
    /\ dpc = "attempt" =>
         /\ attempt_number \in 1..stop_max
         /\ results[d_index] = [k \in 1..(attempt_number - 1) |-> TRUE]
    /\ dpc = "outcome" =>
         /\ attempt_number \in 1..stop_max
         /\ Len(results[d_index]) = attempt_number
         /\ \A k \in 1..(attempt_number - 1) : results[d_index][k]
    /\ dpc = "raised" =>
         /\ attempt_number = stop_max
         /\ results[d_index] = [k \in 1..stop_max |-> TRUE]
    /\ InDownload =>
         \A i \in Before(d_index) : SucceededAt(results[i], stop_max)

\* C12 witness: in the second download() call on the downloader, with
\* n = 2, the first file got through at its second attempt and the second
\* file failed twice, so that download() raised.
C12_Witness ==
    /\ d_calls = 2
    /\ stop_max = 2
    /\ dpc = "raised"
    /\ d_index = 2
    /\ results[1] = <<TRUE, FALSE>>
    /\ results[2] = <<TRUE, TRUE>>

\* C13: download() handles the files in list order; when it raises, the
\* file it stopped at has error = True and download_time = 0, no later file
\* of the list was attempted, and every file before it has
\* download_time >= 0 and no error flag.
C13_FirstFailureAborts ==
    /\ InDownload =>
         \A i \in DOMAIN results : results[i] # <<>> => i <= d_index
    /\ dpc = "raised" =>
         /\ dl_files_to_download[d_index].error
         /\ dl_files_to_download[d_index].download_time = 0
         /\ \A i \in Before(d_index) :
              /\ dl_files_to_download[i].download_time >= 0
              /\ ~dl_files_to_download[i].error

\* C14: after each _download call: with skip_check_uncompress false the
\* attempt is reported successful exactly when the transfer succeeded and
\* the archive probe passed, and after a failed probe the local file is
\* gone, the attempt is reported failed and the retryer calls _download
\* again unless it stops; with skip_check_uncompress true no probe is made
\* and the attempt is reported successful exactly when the transfer
\* succeeded.
C14_ProbeGatesSuccess ==
    dpc = "outcome" =>
        IF skip_check_uncompress
        THEN /\ ~last_attempt.probed
             /\ ~last_attempt.error <=> last_attempt.transfer_ok
        ELSE /\ ~last_attempt.error <=>
                  (last_attempt.transfer_ok /\ last_attempt.probed
                   /\ last_attempt.probe_ok)
             /\ (last_attempt.probed /\ ~last_attempt.probe_ok) =>
                  /\ last_attempt.error
                  /\ dl_files_to_download[d_index].save_as \notin local_files
                  /\ attempt_number < stop_max => ENABLED retry_again

\* C14 witness: a transfer succeeded, the probe of the file failed and the
\* file was removed, with an attempt left.
C14_Witness ==
    /\ dpc = "outcome"
    /\ ~skip_check_uncompress
    /\ last_attempt.transfer_ok
    /\ last_attempt.probed
    /\ ~last_attempt.probe_ok
    /\ dl_files_to_download[d_index].save_as \notin local_files
    /\ attempt_number = 1
    /\ stop_max = 2

\* The tuples of the inventory.
AvailableTuples == {FileTuple(available_files[i]) : i \in DOMAIN available_files}

\* C15: after download_or_copy every entry of files_to_copy has its
\* (name, year, month, day, size) tuple in the inventory, whatever the
\* input (files_to_download holding the same name twice included).
C15_CopiesAreAvailable ==
    dpc = "copied" =>
        \A i \in DOMAIN files_to_copy :
            FileTuple(files_to_copy[i]) \in AvailableTuples

\* Number of entries of a list equal to x.
Count(x, files) == Cardinality({i \in DOMAIN files : files[i] = x})

\* An entry of files_to_download that the claim says is moved: its tuple
\* is in the inventory and, under check_exists, its file exists.
Eligible(d) ==
    /\ FileTuple(d) \in AvailableTuples
    /\ ~check_exists \/ d.name \in existing

\* C16: a download_or_copy call with a non-empty inventory moves to
\* files_to_copy, with root set to root_dir, every files_to_download entry
\* whose tuple is in the inventory (and, with check_exists, whose file
\* exists under root_dir), and files_to_download keeps exactly the other
\* entries; with an empty inventory nothing is moved.
C16_MovesExactlyTheAvailable ==
    [][(dpc = "idle" /\ dpc' = "copied") =>
         IF available_files = <<>>
         THEN /\ files_to_copy' = <<>>
              /\ dl_files_to_download' = dl_files_to_download
         ELSE \A d \in FileDicts :
                /\ Count([d EXCEPT !.root = RootDir], files_to_copy') =
                     IF Eligible(d) THEN Count(d, dl_files_to_download) ELSE 0
                /\ Count(d, dl_files_to_download') =
                     IF Eligible(d) THEN 0 ELSE Count(d, dl_files_to_download)
      ]_vars

\* A match call was made.
AfterMatch == dpc \in {"matched", "matched_again"}

\* The name match gives a file with base name f of the directory at
\* `path`: /d1/.../dk/f, and f alone in the top directory.
RECURSIVE NameAt(_, _)
NameAt(path, f) ==
    IF path = <<>> THEN <<f>>
    ELSE <<"/", Head(path)>> \o
         (IF Len(path) = 1 THEN <<"/", f>> ELSE NameAt(Tail(path), f))

\* files_to_download holds exactly the files named in `names`, once each.
SelectsExactly(names) ==
    /\ {dl_files_to_download[i].name : i \in DOMAIN dl_files_to_download}
         = names
    /\ Len(dl_files_to_download) = Cardinality(names)

\* The last match call listed exactly the directories of `dirs`, once each.
ListsExactly(dirs) ==
    /\ {PathOf(list_calls[i]) : i \in DOMAIN list_calls} = dirs
    /\ Len(list_calls) = Cardinality(dirs)

\* C17: a top-level match call raises whenever it leaves files_to_download
\* empty, whatever the patterns and the listing, and raises only then (no
\* recursive call raises for lack of matches).
C17_NoMatchRaises ==
    AfterMatch => (match_raised <=> dl_files_to_download = <<>>)

\* C18: for the pattern **/* match selects every file of the top listing
\* and of every sub-directory at every depth, each named with its
\* accumulated prefix, and lists every sub-directory.
C18_WildcardSelectsTree ==
    (AfterMatch /\ patterns = <<AllPattern>>) =>
        /\ SelectsExactly({NameAt(path, f) :
               <<path, f>> \in {pf \in (DOMAIN remote_tree) \X {"a", "b"} :
                                   pf[2] \in remote_tree[pf[1]]}})
        /\ ListsExactly(DOMAIN remote_tree \ {<<>>})

\* A segment seen as a regular expression matches a base name.
SegMatch(regex, n) == ReMatch(regex, <<n>>)

\* The segments of a pattern, without a leading ^.
Segments(p) == IF p[1] = "^" THEN Tail(p) ELSE p

\* The directories d1/.../dj whose names match the first j segments of p.
Chain(p, j) ==
    {path \in DOMAIN remote_tree :
        /\ Len(path) = j
        /\ \A i \in 1..j : SegMatch(p[i], path[i])}

\* C19: for one pattern s1/.../sk/f, k >= 1, match selects exactly the
\* files whose name matches f in a directory chain d1/.../dk with every di
\* matching si, names them /d1/.../dk/name, sets their root to the
\* downloader's root, and lists each directory of such a chain once.
C19_SubdirPattern ==
    \A p \in Patterns \ {AllPattern} :
        LET s == Segments(p)
            k == Len(s) - 1
        IN (AfterMatch /\ patterns = <<p>> /\ k >= 1) =>
               /\ SelectsExactly({NameAt(path, f) :
                      <<path, f>> \in {pf \in Chain(s, k) \X {"a", "b"} :
                          /\ pf[2] \in remote_tree[pf[1]]
                          /\ SegMatch(s[k + 1], pf[2])}})
               /\ \A i \in DOMAIN dl_files_to_download :
                      dl_files_to_download[i].root = Rootdir
               /\ ListsExactly(UNION {Chain(s, j) : j \in 1..k})

\* C20: a second match call with the same patterns and the same listing
\* objects leaves files_to_download as the first call left it (and raises
\* if and only if the first call did).
C20_MatchIdempotent ==
    [][(dpc = "matched" /\ dpc' = "matched_again") =>
          /\ dl_files_to_download' = dl_files_to_download
          /\ match_raised' = match_raised]_vars

\* C20 witness: match was called twice and selected, without raising, a
\* file of the top listing (whose dict both calls changed in place) and a
\* file of a sub-directory, renamed with its prefix.
C20_Witness ==
    /\ dpc = "matched_again"
    /\ ~match_raised
    /\ \E i, j \in DOMAIN dl_files_to_download :
         /\ Len(dl_files_to_download[i].name) = 1
         /\ dl_files_to_download[i].root = Rootdir
         /\ Len(dl_files_to_download[j].name) > 1
    /\ \E i \in DOMAIN file_list : file_list[i].root = Rootdir

\* DownloadService.list_status, lines 280-286: GET <session>:progress; a
\* value ("1", "2", ...) is true, None is false.
list_status == HasKey("progress")

\* C21: in a session used for one LIST job, whenever list_status reports
\* true the files key holds the result that job wrote (the job has
\* delivery tag 1).
C21_FilesBeforeProgress ==
    list_status => (HasKey("files") /\ vFiles = 1)

\* C22: a LIST or DOWNLOAD job for which get_handler returned None, handled
\* to its ack while the session is alive, made the handler raise and was
\* recorded once: error written once, one message pushed to error:info,
\* progress incremented once, one _get_handler call; it is then acked, and
\* no step of a worker other than taking a delivery touches the queue or
\* publishes.
C22_NoHandlerRecorded ==
    /\ [](\A w \in DOMAIN wpc :
            (/\ AtAckAlive(w)
             /\ wlog[w].handler > 0
             /\ get_handler(wmsg[w].protocol) = "None") =>
                /\ wres[w] = "raise"
                /\ wlog[w].handler = 1
                /\ wlog[w].error = 1
                /\ wlog[w].errinfo = 1
                /\ wlog[w].progress = 1
                /\ HasKey("error") /\ vError > 0
                /\ errorInfo # <<>>
                /\ acks[wtag[w]] = 0
                /\ ENABLED basic_ack(w))
    /\ [][(wpc' # wpc /\ delivered' = delivered) =>
            (queue' = queue /\ published' = published)]_vars

\* C22 witness: a DOWNLOAD job without handler stands at its ack, recorded
\* as failed, after a LIST job without handler was recorded and acked, the
\* session being alive.
C22_Witness ==
    /\ HasKey("session")
    /\ \E w \in DOMAIN wpc :
         /\ wpc[w] = "ack"
         /\ wmsg[w] = DownloadNoHandlerMsg
         /\ wlog[w].error = 1
         /\ wlog[w].progress = 1
         /\ wtag[w] = 2
    /\ acks[1] = 1
    /\ vError = 2
    /\ vProgress = 2
    /\ vFiles = 1
    /\ Len(errorInfo) = 2

\* C23: list() does not return when the remote is unreachable or answers
\* with a code outside the protocol's success set: it raises.
C23_ListRaises ==
    (dpc = "listed" /\ remote_answer # "ok") => list_result = "raised"

\* C24: when threads of one process download to the same directory, no
\* interleaving of their exists checks and makedirs calls makes a
\* download() fail.
C24_MkdirSerialized ==
    \A t \in DOMAIN mkpc : mkpc[t] # "raised"

\* The files were set: by set_files_to_download, followed by list() for a
\* direct downloader.
FilesSet ==
    IF Direct(downloader_class) THEN dpc = "listed" ELSE dpc = "set"

\* C25: once files are set without an explicit save_as, the save_as of
\* each file is that file's own name, whatever the number of files.
C25_SaveAsDefaultsToName ==
    FilesSet =>
        \A i \in DOMAIN dl_files_to_download :
            dl_files_to_download[i].save_as = dl_files_to_download[i].name

\* The percentage of the submitted files that are completed, rounded down.
TruePercent(prog, total) == (100 * prog) \div total

\* wait_for_download has compared the progress it holds with the total and
\* goes on waiting.
ProgressChecked ==
    cpc \in {"wait_cancel", "cancel_delete", "status_error",
             "status_progress", "errors_loop"}

\* C26: in remote mode, once wait_for_download has seen a progress below
\* the total that makes a whole percent above 0, an InProgress line with
\* that percentage was logged; and no percentage is logged twice.
C26_ProgressLogged ==
    /\ (ProgressChecked /\ progress > 0 /\ progress < files_to_download) =>
           \E i \in DOMAIN progress_log :
               progress_log[i] = TruePercent(progress, files_to_download)
    /\ \A i, j \in DOMAIN progress_log :
           progress_log[i] = progress_log[j] => i = j

\* Job n of the client was never handled: its message, as published, is in
\* the pending pool, in the queue, or with a worker that has not yet called
\* local_download for it.
NeverHandled(n) ==
    \/ \E i \in DOMAIN download_pool : download_pool[i].file = n
    \/ \E i \in DOMAIN queue :
          queue[i].file = n /\ ~queue[i].redelivered
    \/ \E w \in DOMAIN wpc :
          /\ wmsg[w].file = n
          /\ ~wmsg[w].redelivered
          /\ wpc[w] \in {"download", "local_download"}

\* C27: when jobs are delivered again after they were handled, the session
\* being alive, wait_for_download does not return before every submitted
\* job has been handled at least once.
C27_RedeliveryTolerated ==
    (cpc = "returned" /\ cleanpc = "idle") =>
        \A n \in 1..files_to_download : ~NeverHandled(n)

\* No delivery is being handled.
NoJobHandled == \A w \in DOMAIN wpc : wpc[w] = "idle"

\* C28: a failed DOWNLOAD job that was counted in progress was counted in
\* error before, and whenever no job is being handled the error counter is
\* at most the progress counter (an absent counter counts as 0).
C28_ErrorBeforeProgress ==
    /\ \A w \in DOMAIN wpc :
           (wres[w] = "raise" /\ wlog[w].progress = 1) => wlog[w].error = 1
    /\ NoJobHandled => vError <= vProgress

\* The number of places job n of the client is at: the pending pool, the
\* queue, a worker.
Copies(n) ==
    Cardinality({i \in DOMAIN download_pool : download_pool[i].file = n})
    + Cardinality({i \in DOMAIN queue : queue[i].file = n})
    + Cardinality({w \in DOMAIN wpc : wmsg[w].file = n})

\* C29: in remote mode files_to_download is always the number of jobs
\* published plus the size of the pending pool, and no job is at two
\* places; without rate limit nothing is ever pending; with one nothing is
\* published before wait_for_download; and when wait_for_download returns
\* (no cancel) every job was published.
C29_PublishedExactlyOnce ==
    /\ files_to_download = published + Len(download_pool)
    /\ \A n \in 1..MaxFiles :
           Copies(n) <= (IF n <= files_to_download THEN 1 ELSE 0)
    /\ rate_limiting = 0 => download_pool = <<>>
    /\ (rate_limiting > 0 /\ cpc \in {"new", "submit"}) => published = 0
    /\ cpc = "returned" =>
           (download_pool = <<>> /\ published = files_to_download)

\* C29 witness: under a rate limit of 1 two jobs were pooled, published one
\* after the other during the wait, and the wait returned.
C29_Witness ==
    /\ rate_limiting = 1
    /\ files_to_download = 2
    /\ cpc = "returned"
    /\ published = 2
    /\ download_pool = <<>>

\* C30: wait_for_download called with no job submitted does not raise and
\* returns false.
C30_EmptyWaitReturnsFalse ==
    files_to_download = 0 =>
        /\ cpc # "raised"
        /\ cpc = "returned" => ~download_error

\* The lists of `lists` put end to end.
RECURSIVE Flatten(_)
Flatten(lists) ==
    IF lists = <<>> THEN <<>> ELSE Head(lists) \o Flatten(Tail(lists))

\* The sequence from its last element to its first.
Reversed(seq) == [i \in 1..Len(seq) |-> seq[Len(seq) + 1 - i]]

\* C31: download_errors returns the recorded messages in the order in which
\* they were recorded and removes them from the store, each message being
\* returned by exactly one call, also when handlers push while it runs: the
\* lists returned so far, the list being built and what is left in the
\* store (oldest at the right end) make up the messages recorded, in order.
C31_ErrorsReturnedOnce ==
    Flatten(returned) \o errors \o Reversed(errorInfo) = recorded

\* The same when every message has a text.
C31_WithTexts ==
    (\A i \in DOMAIN recorded : Truthy(recorded[i])) => C31_ErrorsReturnedOnce

\* Two calls have returned messages pushed before and while the first ran.
C31_Reached ==
    /\ Len(returned) = 2
    /\ returned[1] # <<>>
    /\ returned[2] # <<>>
\* C32: a set_options call whose options name neither stop_condition nor
\* wait_policy leaves the downloader's retry policy as it was.
C32_RetryerKept ==
    [][(opt_calls' = opt_calls + 1
        /\ options'.stop = NoExpr /\ options'.wait = NoExpr)
       => retryer' = retryer]_vars

\* A stop condition of the grammar: stop_never, a constructor with its
\* number, stop_any or stop_all of stop conditions, or two stop conditions
\* joined by | or &.
RECURSIVE IsStop(_)
IsStop(e) ==
    \/ e.kind = "default"
    \/ e.kind = "name" /\ e.name = "stop_never"
    \/ /\ e.kind = "call"
       /\ e.name \in {"stop_after_attempt", "stop_after_delay"}
       /\ Len(e.args) = 1
       /\ e.args[1].kind = "num"
    \/ /\ e.kind = "call"
       /\ e.name \in {"stop_any", "stop_all"}
       /\ \A i \in DOMAIN e.args : IsStop(e.args[i])
    \/ /\ e.kind = "op"
       /\ e.name \in {"|", "&"}
       /\ \A i \in DOMAIN e.args : IsStop(e.args[i])

\* A wait policy of the grammar.
RECURSIVE IsWait(_)
IsWait(e) ==
    \/ e.kind = "default"
    \/ e.kind = "name" /\ e.name = "wait_none"
    \/ /\ e.kind = "call"
       /\ e.name \in {"wait_fixed", "wait_random", "wait_incrementing",
                      "wait_exponential", "wait_random_exponential"}
       /\ Len(e.args) \in Arity(e.name)
       /\ \A i \in DOMAIN e.args : e.args[i].kind = "num"
    \/ /\ e.kind = "call"
       /\ e.name \in {"wait_combine", "wait_chain"}
       /\ e.args # <<>>
       /\ \A i \in DOMAIN e.args : IsWait(e.args[i])
    \/ /\ e.kind = "op"
       /\ e.name = "+"
       /\ \A i \in DOMAIN e.args : IsWait(e.args[i])

\* C37: set_options raises ValueError exactly when the stop_condition or
\* the wait_policy it is given is not an expression of the grammar (unknown
\* name, constructor without its arguments, combination with a number).
C37_RetryParsing ==
    opt_result # "none" =>
        (opt_result = "ValueError" <=>
            ~(/\ IsStop(OptionOrDefault(options.stop))
              /\ IsWait(OptionOrDefault(options.wait))))
\* C33: after a top-level match files_to_download holds each remote file
\* (a name with its directories) at most once, also when the name matches
\* two or more of the patterns.
C33_SelectedOnce ==
    AfterMatch =>
        \A i, j \in DOMAIN dl_files_to_download :
            dl_files_to_download[i].name = dl_files_to_download[j].name
                => i = j

\* The same for a single pattern.
C33_OnePattern == Len(patterns) <= 1 => C33_SelectedOnce
\* The entry d of files_to_download as files_to_copy holds it.
AsCopy(d) == [d EXCEPT !.root = RootDir]

\* Every entry that files_to_download held is afterwards in one of the two
\* lists, as many times as it was held, and nothing else is.
NothingLost ==
    [][(dpc = "idle" /\ dpc' = "copied") =>
          /\ \A d \in FileDicts :
                 Count(d, dl_files_to_download')
                   + Count(AsCopy(d), files_to_copy')
                     = Count(d, dl_files_to_download)
          /\ Len(dl_files_to_download') + Len(files_to_copy')
               = Len(dl_files_to_download)]_vars

\* No entry is both copied and left to download.
CopyDisjoint ==
    dpc = "copied" =>
        \A d \in FileDicts :
            ~(/\ Count(d, dl_files_to_download) > 0
              /\ Count(AsCopy(d), files_to_copy) > 0)

\* C34: download_or_copy neither loses nor duplicates entries: afterwards
\* files_to_copy and files_to_download are disjoint and together hold
\* exactly the entries that files_to_download held before the call.
C34_CopyPartition == []CopyDisjoint /\ NothingLost

\* The same when files_to_download held no entry twice.
C34_DistinctEntries ==
    [][(/\ dpc = "idle" /\ dpc' = "copied"
        /\ \A i, j \in DOMAIN dl_files_to_download :
              dl_files_to_download[i] = dl_files_to_download[j] => i = j)
       => CopyDisjoint']_vars
\* What a first match call with the pattern list pats gives on the
\* downloader's tree: files_to_download and whether it raised.
FirstMatch(pats) ==
    LET r == match(downloader_class, pats, list(<<>>).files,
                   list(<<>>).dirs, <<>>, FALSE,
                   [files |-> <<>>, listed |-> <<>>, raised |-> FALSE])
    IN [files |-> r.files, raised |-> r.raised]

\* The first match call was given the single pattern ^/rest.
CaretMatched ==
    /\ dpc = "matched"
    /\ Len(patterns) = 1
    /\ patterns[1][1] = "^"

\* C35: a leading ^ segment is dropped before the pattern is interpreted:
\* ^/d/f selects what d/f selects, and ^/f, left with a single segment,
\* selects what f selects (the files of the current prefix whose name
\* matches f).
C35_CaretDropped ==
    CaretMatched =>
        LET dropped == FirstMatch(<<Tail(patterns[1])>>)
        IN /\ dl_files_to_download = dropped.files
           /\ match_raised = dropped.raised

\* The same for the patterns left with two or more segments.
C35_WithSubdirs ==
    (CaretMatched /\ Len(patterns[1]) > 2) => C35_CaretDropped
\* The names of the entries of a list, in order.
NamesOf(files) == [i \in DOMAIN files |-> files[i].name]

\* C36: for a direct downloader list() lists no directory and returns the
\* preset files_to_download (the same entries in the same order) with an
\* empty directory list, and match() selects every file of the list it is
\* given whatever the patterns, without raising.
C36_DirectListAndMatch ==
    [][/\ (dpc = "set" /\ dpc' = "listed") =>
             /\ file_list' = dl_files_to_download'
             /\ NamesOf(file_list') = NamesOf(dl_files_to_download)
             /\ dir_list' = <<>>
             /\ list_calls' = <<>>
       /\ (dpc = "listed" /\ dpc' = "matched") =>
             /\ dl_files_to_download' = file_list
             /\ ~match_raised']_vars

\* C36 witness: a direct downloader matched, without raising, a list of two
\* files or more of which one matches none of the patterns given.
C36_Witness ==
    /\ dpc = "matched"
    /\ Direct(downloader_class)
    /\ ~match_raised
    /\ patterns # <<>>
    /\ Len(dl_files_to_download) >= 2
    /\ \E i \in DOMAIN dl_files_to_download :
          \A k \in DOMAIN patterns :
              ~ReMatch(patterns[k][1], dl_files_to_download[i].name)

\* C36 witness for the empty list: nothing was preset and match did not
\* raise.
C36_EmptyMatched ==
    /\ dpc = "matched"
    /\ dl_files_to_download = <<>>
    /\ ~match_raised
====
